---- MODULE Spec2Model ----
(***************************************************************************)
(* A model of psarc_unpacker (src/src/psarc.rs, src/src/decryptor.rs):     *)
(* the PSARC header and TOC parsers, PsarcFile::open, the block walk of    *)
(* inflate_entry_data and the manifest binding of read_manifest.           *)
(*                                                                         *)
(* Byte buffers are sequences of integers 0..255; a reader is a buffer and *)
(* a 0-based position.  io::Result values are records [st, val] with st    *)
(* one of "ok", "err" (val: the io::ErrorKind) and "panic" (val: the       *)
(* panic's message; the call never returns).  TLC's integers are 32-bit    *)
(* signed, so every word the model draws is below 2^31.                    *)
(***************************************************************************)
EXTENDS Integers, Sequences, FiniteSets, TLC

VARIABLES
    input,    \* the bytes behind the reader handed to the parser
    build,    \* "debug" | "release": whether overflow checks are compiled in
    pc,       \* where the caller is: "start", "open", "failed", "panicked", ...
    hdr,      \* result of a stand-alone PsarcFileHeader::read_from
    header,   \* PsarcFile.header
    toc,      \* PsarcFile.toc: [entries, encrypted, zip_block_sizes]
    data,     \* PsarcFile.data
    last,     \* the last call on the opened archive and what it returned;
              \* for an inflate_entry_data that follows another one, also
              \* the entry and the result of that one (prev)
    calls     \* the inflate_entry_data calls that run side by side: for
              \* each, its local variables and, once it returned, its result

vars == <<input, build, pc, hdr, header, toc, data, last, calls>>

----------------------------------------------------------------------------
(* io::Result *)

Ok(v)    == [st |-> "ok", val |-> v]
Err(k)   == [st |-> "err", val |-> k]
Panic(m) == [st |-> "panic", val |-> m]

\* The process ends in the allocator's error handler.
Abort(m) == [st |-> "abort", val |-> m]

\* Vec::with_capacity(count) of a type that takes space, and vec![0; count]:
\* nothing is requested for count = 0; a request the allocator does not
\* grant ends the process.  mem: the largest capacity the allocator grants
\* in this run.
with_capacity(count, mem) == count = 0 \/ count <= mem

\* An allocator that grants every request the model can state.
Unlimited == 2147483647

\* The largest capacity the allocator grants: a few pages, or anything.
MemLimits == {4096, Unlimited}

Min(a, b) == IF a <= b THEN a ELSE b
Max(a, b) == IF a >= b THEN a ELSE b

\* Read::read_exact on a Cursor: n bytes from pos, or UnexpectedEof.
read_exact(buf, pos, n) ==
    IF pos + n <= Len(buf)
    THEN Ok(SubSeq(buf, pos + 1, pos + n))
    ELSE Err("UnexpectedEof")

\* ReadBytesExt::read_u32::<BigEndian> on four bytes already read.
u32_be(b) == ((b[1] * 256 + b[2]) * 256 + b[3]) * 256 + b[4]

\* ReadBytesExt::read_u16::<BigEndian> on two bytes already read.
u16_be(b) == b[1] * 256 + b[2]

\* The length of the well-formed UTF-8 sequence b starts with, or 0 when b
\* starts with none: the second byte of a sequence has a range that depends
\* on the first (no overlong form, no surrogate, nothing above U+10FFFF).
utf8_width(b) ==
    LET b1 == b[1]
        width == IF b1 < 128 THEN 1
                 ELSE IF b1 >= 194 /\ b1 <= 223 THEN 2
                 ELSE IF b1 >= 224 /\ b1 <= 239 THEN 3
                 ELSE IF b1 >= 240 /\ b1 <= 244 THEN 4
                 ELSE 0
        lo2 == IF b1 = 224 THEN 160 ELSE IF b1 = 240 THEN 144 ELSE 128
        hi2 == IF b1 = 237 THEN 159 ELSE IF b1 = 244 THEN 143 ELSE 191
    IN  IF width = 0 \/ Len(b) < width THEN 0
        ELSE IF width >= 2 /\ ~(b[2] >= lo2 /\ b[2] <= hi2) THEN 0
        ELSE IF \E i \in 3..width : ~(b[i] >= 128 /\ b[i] <= 191) THEN 0
        ELSE width

\* The code point of a well-formed sequence of the given width.
utf8_char(b, width) ==
    IF width = 1 THEN b[1]
    ELSE IF width = 2 THEN (b[1] - 192) * 64 + (b[2] - 128)
    ELSE IF width = 3 THEN ((b[1] - 224) * 64 + (b[2] - 128)) * 64 + (b[3] - 128)
    ELSE (((b[1] - 240) * 64 + (b[2] - 128)) * 64 + (b[3] - 128)) * 64 + (b[4] - 128)

\* The bytes an ill-formed sequence takes: the longest prefix of b that
\* starts a well-formed sequence, at least one byte.
utf8_invalid_len(b) ==
    LET b1 == b[1]
        lo2 == IF b1 = 224 THEN 160 ELSE IF b1 = 240 THEN 144 ELSE 128
        hi2 == IF b1 = 237 THEN 159 ELSE IF b1 = 244 THEN 143 ELSE 191
        lead3 == b1 >= 224 /\ b1 <= 244
        lead2 == (b1 >= 194 /\ b1 <= 223) \/ lead3
        cont(i) == Len(b) >= i /\ b[i] >= 128 /\ b[i] <= 191
    IN  IF ~lead2 \/ Len(b) < 2 \/ ~(b[2] >= lo2 /\ b[2] <= hi2) THEN 1
        ELSE IF ~lead3 \/ ~cont(3) THEN 2
        ELSE IF b1 < 240 \/ ~cont(4) THEN 3
        ELSE 4

REPLACEMENT_CHARACTER == 65533

\* The bytes the sequence that starts at byte i takes.
utf8_taken(b, i) ==
    IF utf8_width(SubSeq(b, i, Len(b))) > 0 THEN utf8_width(SubSeq(b, i, Len(b)))
    ELSE utf8_invalid_len(SubSeq(b, i, Len(b)))

\* Byte i starts a sequence of the scan.  A byte outside 0x80..0xBF always
\* does, since a sequence takes only bytes of that range after its first;
\* a byte of that range does unless the sequence of the nearest earlier
\* byte outside the range takes it.
utf8_starts(b, i) ==
    \/ b[i] < 128 \/ b[i] > 191
    \/ \A j \in Max(1, i - 3)..(i - 1) :
          (/\ b[j] < 128 \/ b[j] > 191
           /\ \A k \in (j + 1)..(i - 1) : b[k] >= 128 /\ b[k] <= 191)
             => utf8_taken(b, j) <= i - j

utf8_char_at(b, i) ==
    IF utf8_width(SubSeq(b, i, Len(b))) > 0
    THEN utf8_char(SubSeq(b, i, Len(b)), utf8_width(SubSeq(b, i, Len(b))))
    ELSE REPLACEMENT_CHARACTER

\* The indices of b that satisfy utf8_starts, in order.
utf8_start_indices(b) ==
    LET starts(i) == utf8_starts(b, i)
    IN  SelectSeq([i \in 1..Len(b) |-> i], starts)

utf8_chars(b, at) == [k \in 1..Len(at) |-> utf8_char_at(b, at[k])]

\* String::from_utf8_lossy: well-formed sequences become their code points,
\* every ill-formed sequence becomes one U+FFFD.  The scan from the left is
\* written without recursion: where the sequences start is decided from
\* the three bytes before.
from_utf8_lossy(b) == utf8_chars(b, utf8_start_indices(b))

----------------------------------------------------------------------------
(* PsarcArchiveFlags and PsarcFileHeader::read_from *)

TOC_ENCRYPTED == 4
ALL_FLAGS == 255

\* PsarcArchiveFlags::from_bits_truncate: only the eight declared bits stay.
from_bits_truncate(raw) == raw % (ALL_FLAGS + 1)

\* PsarcArchiveFlags::contains for a single-bit flag.
contains(bits, flag) == (bits \div flag) % 2 = 1

\* PsarcFileHeader::read_from reading its words little-endian.
PsarcFileHeader_read_fromLE(buf) ==
    LET f(off) == read_exact(buf, off, 4)
        le(b)  == u32_be(<<b[4], b[3], b[2], b[1]>>)
    IN  IF \E off \in {0, 4, 8, 12, 16, 20, 24, 28} : f(off).st = "err"
        THEN Err("UnexpectedEof")
        ELSE Ok([identifier     |-> from_utf8_lossy(f(0).val),
                 version        |-> le(f(4).val),
                 compression    |-> from_utf8_lossy(f(8).val),
                 toc_size       |-> le(f(12).val),
                 toc_entry_size |-> le(f(16).val),
                 toc_offset     |-> 32,
                 entry_count    |-> le(f(20).val),
                 block_size     |-> le(f(24).val),
                 archive_flags  |-> from_bits_truncate(le(f(28).val))])

\* The reader is rewound to 0, then eight fields are read in order, each
\* read propagating its error; toc_offset is the position after the last.
PsarcFileHeader_read_from(buf) ==
    LET p0 == 0
        identifier_buf == read_exact(buf, p0, 4)
        p1 == p0 + 4
        version == read_exact(buf, p1, 4)
        p2 == p1 + 4
        compression_buf == read_exact(buf, p2, 4)
        p3 == p2 + 4
        toc_size == read_exact(buf, p3, 4)
        p4 == p3 + 4
        toc_entry_size == read_exact(buf, p4, 4)
        p5 == p4 + 4
        entry_count == read_exact(buf, p5, 4)
        p6 == p5 + 4
        block_size == read_exact(buf, p6, 4)
        p7 == p6 + 4
        raw_archive_flags == read_exact(buf, p7, 4)
        p8 == p7 + 4
    IN  IF identifier_buf.st = "err" THEN identifier_buf
        ELSE IF version.st = "err" THEN version
        ELSE IF compression_buf.st = "err" THEN compression_buf
        ELSE IF toc_size.st = "err" THEN toc_size
        ELSE IF toc_entry_size.st = "err" THEN toc_entry_size
        ELSE IF entry_count.st = "err" THEN entry_count
        ELSE IF block_size.st = "err" THEN block_size
        ELSE IF raw_archive_flags.st = "err" THEN raw_archive_flags
        ELSE Ok([identifier     |-> from_utf8_lossy(identifier_buf.val),
                 version        |-> u32_be(version.val),
                 compression    |-> from_utf8_lossy(compression_buf.val),
                 toc_size       |-> u32_be(toc_size.val),
                 toc_entry_size |-> u32_be(toc_entry_size.val),
                 toc_offset     |-> p8,
                 entry_count    |-> u32_be(entry_count.val),
                 block_size     |-> u32_be(block_size.val),
                 archive_flags  |-> from_bits_truncate(u32_be(raw_archive_flags.val))])

----------------------------------------------------------------------------
(* DecryptStream::new_psarc.  AES-256-CFB under the fixed PSARC_KEY and an  *)
(* all-zero IV is modelled by a cipher of the same shape on one-byte       *)
(* blocks: plaintext block i is ciphertext block i combined with the       *)
(* block cipher applied to ciphertext block i-1 (the IV for i = 1).  It    *)
(* keeps the length, is a bijection and is not the identity.               *)

PSARC_IV == 0

\* The block cipher under PSARC_KEY: a fixed permutation of the byte values.
aes_block(x) == (x * 167 + 91) % 256

cfb_decrypt(c) ==
    [i \in 1..Len(c) |->
        (c[i] + 256 - aes_block(IF i = 1 THEN PSARC_IV ELSE c[i - 1])) % 256]

\* Reads exactly `length` bytes from the input and decrypts them; the
\* result is a fresh cursor (position 0) over the plaintext.
DecryptStream_new_psarc(buf, pos, length, mem) ==
    LET encrypted_data == read_exact(buf, pos, length)
    IN  IF ~with_capacity(length, mem) THEN Abort("memory allocation failed")
        ELSE IF encrypted_data.st = "err" THEN encrypted_data
        ELSE Ok(cfb_decrypt(encrypted_data.val))

----------------------------------------------------------------------------
(* PsarcTOC::read_from *)

None    == [some |-> FALSE, str |-> <<>>]
Some(s) == [some |-> TRUE, str |-> s]

\* A variant that assembles the value in 32 bits: the first byte is
\* shifted out.
read_u40_be_u32(b) ==
    [hi |-> b[2], lo |-> (b[3] * 256 + b[4]) * 256 + b[5]]

\* A variant that takes the five bytes least significant first.
read_u40_be_le(b) ==
    [hi |-> b[5] * 256 + b[4], lo |-> (b[3] * 256 + b[2]) * 256 + b[1]]

\* read_u40_be: the five bytes MSB first.  The 40-bit value is kept as two
\* limbs, bits 39..24 and bits 23..0, because 2^32 is not a TLC integer.
read_u40_be(b) ==
    [hi |-> b[1] * 256 + b[2], lo |-> (b[3] * 256 + b[4]) * 256 + b[5]]

\* The u64 a pair of limbs stands for (the model draws hi < 128).
u40_value(w) == w.hi * 16777216 + w.lo

u40_read(b, pos) ==
    IF b.st = "err" THEN [st |-> "err", val |-> "UnexpectedEof", pos |-> pos]
    ELSE [st |-> "ok", val |-> read_u40_be(b.val), pos |-> pos + 5]

\* read_u40_be(&mut reader) with the reader at pos: read_exact of five
\* bytes, then the value.
read_u40_be_at(buf, pos) == u40_read(read_exact(buf, pos, 5), pos)

\* read_u24_be on three bytes already read.
read_u24_be(b) == (b[1] * 256 + b[2]) * 256 + b[3]

\* format!("{:02X}", b) for each byte, concatenated: code points of the
\* upper-case hex digits.
HexDigit(d) == IF d < 10 THEN 48 + d ELSE 55 + d
hex_upper(b) ==
    [i \in 1..(2 * Len(b)) |->
        IF i % 2 = 1 THEN HexDigit(b[(i + 1) \div 2] \div 16)
                     ELSE HexDigit(b[i \div 2] % 16)]

\* (block_size as f64).log(256.0).round() as usize.  ln(x)/ln(256) is exact
\* at every power of 16 (0.5, 1.0, 1.5, ...), round() rounds a half away
\* from zero, and ln(0) = -inf saturates to 0 in the cast.
log256_round(block_size) ==
    IF block_size < 16 THEN 0
    ELSE IF block_size < 4096 THEN 1
    ELSE IF block_size < 1048576 THEN 2
    ELSE IF block_size < 268435456 THEN 3
    ELSE 4

\* The clamp of z_num.
MAX_ZIP_BLOCKS == 500

\* The loop `for i in 0..entry_count`: each record is read as 16 + 4 + 5 + 5
\* bytes from the TOC reader, whatever header.toc_entry_size says.
RECURSIVE read_entries(_, _, _, _, _)
read_entries(buf, pos, i, entry_count, entries) ==
    IF i >= entry_count THEN [st |-> "ok", val |-> entries, pos |-> pos]
    ELSE LET hash_bytes  == read_exact(buf, pos, 16)
             start_block == read_exact(buf, pos + 16, 4)
             length      == read_exact(buf, pos + 20, 5)
             offset      == read_exact(buf, pos + 25, 5)
         IN  IF \/ hash_bytes.st = "err" \/ start_block.st = "err"
                \/ length.st = "err" \/ offset.st = "err"
             THEN [st |-> "err", val |-> "UnexpectedEof", pos |-> pos]
             ELSE read_entries(buf, pos + 30, i + 1, entry_count,
                    Append(entries,
                        [index       |-> i,
                         hash        |-> hex_upper(hash_bytes.val),
                         start_block |-> u32_be(start_block.val),
                         length      |-> u40_value(read_u40_be(length.val)),
                         offset      |-> u40_value(read_u40_be(offset.val)),
                         path        |-> None]))

\* One block size of b_num bytes already read, most significant byte first:
\* read_u16::<BigEndian>, read_u24_be or read_u32::<BigEndian>.
size_value(b, b_num) ==
    IF b_num = 2 THEN u16_be(b)
    ELSE IF b_num = 3 THEN read_u24_be(b)
    ELSE u32_be(b)

\* The sizes of z_num rounds of the loop that all find their bytes: round k
\* reads the b_num bytes from pos + (k - 1) * b_num.
sizes_read(buf, pos, z_num, b_num) ==
    [k \in 1..z_num |->
        size_value(SubSeq(buf, pos + (k - 1) * b_num + 1, pos + k * b_num), b_num)]

\* read_sizes without the check of the width: every b_num is read.
read_sizes_any_width(buf, pos, z_num, b_num, sizes) ==
    IF z_num = 0 THEN Ok(sizes)
    ELSE IF pos + z_num * b_num > Len(buf) THEN Err("UnexpectedEof")
    ELSE Ok(sizes \o [k \in 1..z_num |-> buf[pos + k * b_num]])

\* The loop `for _ in 0..z_num`: one size of b_num bytes per round, or
\* InvalidData in the first round when b_num is not 2, 3 or 4.  The rounds
\* read consecutive bytes, so one of them meets the end of the reader
\* exactly when the z_num sizes do not fit.
read_sizes(buf, pos, z_num, b_num, sizes) ==
    IF z_num = 0 THEN Ok(sizes)
    ELSE IF b_num \notin {2, 3, 4} THEN Err("InvalidData")
    ELSE IF pos + z_num * b_num > Len(buf) THEN Err("UnexpectedEof")
    ELSE Ok(sizes \o sizes_read(buf, pos, z_num, b_num))

\* A variant without the ceiling.
zip_block_count_unclamped(remaining, b_num) == remaining \div b_num

\* z_num: (remaining as usize) / b_num, then .min(500).
zip_block_count(remaining, b_num) == Min(remaining \div b_num, MAX_ZIP_BLOCKS)

\* `buf`, `pos`: the caller's reader, positioned after the header.
PsarcTOC_read_from(buf, pos, h, mem) ==
    LET encrypted == contains(h.archive_flags, TOC_ENCRYPTED)
        decrypt_stream == DecryptStream_new_psarc(buf, pos, h.toc_size, mem)
        toc_buf == IF encrypted THEN decrypt_stream.val ELSE buf
        toc_pos == IF encrypted THEN 0 ELSE pos
        entries == read_entries(toc_buf, toc_pos, 0, h.entry_count, <<>>)
        toc_entries_bytes == h.entry_count * h.toc_entry_size
        remaining == h.toc_size - 32 - toc_entries_bytes
        b_num == log256_round(h.block_size)
        z_num == zip_block_count(remaining, b_num)
        zip_block_sizes == read_sizes(toc_buf, entries.pos, z_num, b_num, <<>>)
    IN  IF encrypted /\ decrypt_stream.st # "ok" THEN decrypt_stream
        ELSE IF ~with_capacity(h.entry_count, mem)
        THEN Abort("memory allocation failed")
        ELSE IF entries.st = "err" THEN Err(entries.val)
        ELSE IF remaining < 0 THEN Err("InvalidData")
        ELSE IF b_num = 0 THEN Panic("attempt to divide by zero")
        ELSE IF zip_block_sizes.st = "err" THEN zip_block_sizes
        ELSE Ok([entries         |-> entries.val,
                 encrypted       |-> encrypted,
                 zip_block_sizes |-> zip_block_sizes.val])

----------------------------------------------------------------------------
(* PsarcFile::open *)

\* Header, then TOC from where the header left the reader, then the whole
\* input from offset 0 as the archive's data.
PsarcFile_open(buf, mem) ==
    LET h == PsarcFileHeader_read_from(buf)
        t == PsarcTOC_read_from(buf, h.val.toc_offset, h.val, mem)
    IN  IF h.st = "err" THEN h
        ELSE IF t.st # "ok" THEN t
        ELSE Ok([header |-> h.val, toc |-> t.val, data |-> buf])

----------------------------------------------------------------------------
(* unzip_block and flate2's DeflateDecoder.  Deflate is modelled by a      *)
(* small token code with the decoder's shape: a total function from the    *)
(* compressed bytes to the decompressed bytes or an error, whose output    *)
(* length is dictated by the stream and not by its length on disk.         *)
(*   0            end of stream: what follows is ignored                   *)
(*   1..127       a literal byte                                           *)
(*   240 hi lo v  a run of hi*256 + lo copies of v                         *)
(*   other        a corrupt stream                                         *)
(* Input that ends before an end of stream yields what was decoded so far  *)
(* (read_to_end on the decoder returns Ok at the end of its input).        *)

RUN == 240

RECURSIVE deflate_decode(_, _)
deflate_decode(comp_data, decompressed) ==
    CASE comp_data = <<>> \/ comp_data[1] = 0 -> Ok(decompressed)
      [] comp_data[1] < 128 ->
           deflate_decode(Tail(comp_data), Append(decompressed, comp_data[1]))
      [] comp_data[1] = RUN /\ Len(comp_data) < 4 -> Ok(decompressed)
      [] comp_data[1] = RUN ->
           deflate_decode(SubSeq(comp_data, 5, Len(comp_data)),
             decompressed \o
               [i \in 1..(comp_data[2] * 256 + comp_data[3]) |-> comp_data[4]])
      [] OTHER -> Err("InvalidInput")

\* unzip_block(reader, size) with the reader at pos: skip two bytes, read
\* size - 2 bytes, decompress them.  pos: where the reader is left.
unzip_decoded(decoded, to) ==
    [st |-> decoded.st, val |-> decoded.val, pos |-> to]

unzip_read(comp_data, pos, size) ==
    IF comp_data.st = "err"
    THEN [st |-> "err", val |-> "UnexpectedEof", pos |-> pos + 2]
    ELSE unzip_decoded(deflate_decode(comp_data.val, <<>>), pos + size)

\* A variant that leaves the reader after as many bytes as were
\* decompressed.
unzip_block_by_output(buf, pos, size) ==
    LET comp_data == read_exact(buf, pos + 2, Max(size - 2, 0))
        decoded == deflate_decode(comp_data.val, <<>>)
    IN  IF size < 2 THEN [st |-> "err", val |-> "InvalidInput", pos |-> pos + 2]
        ELSE IF comp_data.st = "err"
        THEN [st |-> "err", val |-> "UnexpectedEof", pos |-> pos + 2]
        ELSE [st |-> decoded.st, val |-> decoded.val,
              pos |-> pos + 2 + (IF decoded.st = "ok" THEN Len(decoded.val) ELSE 0)]

unzip_block(buf, pos, size) ==
    IF size < 2 THEN [st |-> "err", val |-> "InvalidInput", pos |-> pos + 2]
    ELSE unzip_read(read_exact(buf, pos + 2, size - 2), pos, size)

----------------------------------------------------------------------------
(* PsarcFile::inflate_entry_data *)

ZIP_HEADER == 30938    \* 0x78DA

\* ((entry.length as f64) / (block_size as f64)).ceil() as u32.  Every
\* opened archive has block_size >= 16 (a smaller one panics in
\* PsarcTOC::read_from) and the model's lengths are exact in an f64.
num_blocks_of(length, block_size) == (length + block_size - 1) \div block_size

\* entry.start_block + num_blocks - 1 in u32.  The sum is 0 only for
\* start_block = 0 and num_blocks = 0, and the subtraction then overflows:
\* a panic where overflow checks are compiled in, u32::MAX where not.
\* The model's start blocks and block counts are below 2^31, so the
\* addition does not overflow.
last_block_of(start_block, num_blocks) ==
    IF start_block + num_blocks = 0
    THEN IF build = "debug"
         THEN [st |-> "panic", wrapped |-> FALSE, value |-> 0]
         ELSE [st |-> "ok", wrapped |-> TRUE, value |-> 0]
    ELSE [st |-> "ok", wrapped |-> FALSE, value |-> start_block + num_blocks - 1]

\* block <= last_block, where a wrapped last_block is u32::MAX.
in_range(block, last_block) == last_block.wrapped \/ block <= last_block.value

\* A variant that takes the last size of the array for a block past it.
zipblock_size_clamped(zip_block_sizes, block) ==
    IF block < Len(zip_block_sizes) THEN zip_block_sizes[block + 1]
    ELSE IF zip_block_sizes = <<>> THEN 0
    ELSE zip_block_sizes[Len(zip_block_sizes)]

\* self.toc.zip_block_sizes.get(block).copied().unwrap_or(0)
zipblock_size_of(zip_block_sizes, block) ==
    IF block < Len(zip_block_sizes) THEN zip_block_sizes[block + 1] ELSE 0

\* A variant with one cursor for all calls and no seek: a call starts
\* where the call before it stopped.
cursor_start_shared(entry) ==
    IF last.op = "inflate" THEN last.res.pos ELSE entry.offset

\* Where the cursor of a call starts: Cursor::new(&self.data) and the seek
\* to entry.offset.
cursor_start(entry) == entry.offset

\* A variant that takes every Zlib header (a first byte of 0x78) for the
\* mark of a compressed block.
is_any_zlib_header(header_val) == header_val \div 256 = 120

\* header_val == ZIP_HEADER
is_zip_header(header_val) == header_val = ZIP_HEADER

\* A variant that reads a whole buffer or nothing.
cursor_read_whole(buf, pos, n) ==
    IF pos + n <= Len(buf) THEN SubSeq(buf, pos + 1, pos + n) ELSE <<>>

\* cursor.read(&mut buf) with a buf of n bytes: the bytes that are left,
\* at most n of them; none, and no error, at or past the end.
cursor_read(buf, pos, n) ==
    SubSeq(buf, pos + 1, pos + Min(n, Max(Len(buf) - pos, 0)))

\* One round of the loop, for a block of size zsize on disk and the cursor
\* at from: the branch taken (kind), the io::Result of the round (on Ok the
\* bytes it appends) and the cursor after it.
round(block, zsize, from, kind, st, val, to) ==
    [st |-> st, kind |-> kind, val |-> val, block |-> block,
     zsize |-> zsize, from |-> from, pos |-> to]

\* zipblock_size == 0: one read into a buffer of block_size bytes.
round_full(block, from, bytes) ==
    round(block, 0, from, "full", "ok", bytes, from + Len(bytes))

\* header_val == ZIP_HEADER: unzip_block
round_unzip(block, zsize, from, unzipped) ==
    round(block, zsize, from, "unzip", unzipped.st, unzipped.val, unzipped.pos)

\* any other header_val: read_exact of zipblock_size bytes
round_raw(block, zsize, from, raw) ==
    round(block, zsize, from, "raw", raw.st, raw.val,
          IF raw.st = "ok" THEN from + zsize ELSE from)

\* the peek of two bytes (read_u16, then the seek back) and the branch on it
round_peeked(buf, block, zsize, from, peek) ==
    IF peek.st = "err"
    THEN round(block, zsize, from, "peek", "err", peek.val, from)
    ELSE IF is_zip_header(u16_be(peek.val))
    THEN round_unzip(block, zsize, from, unzip_block(buf, from, zsize))
    ELSE round_raw(block, zsize, from, read_exact(buf, from, zsize))

round_sized(f, block, zsize, from) ==
    IF zsize = 0
    THEN round_full(block, from, cursor_read(f.data, from, f.header.block_size))
    ELSE round_peeked(f.data, block, zsize, from, read_exact(f.data, from, 2))

inflate_block(f, block, pos) ==
    round_sized(f, block, zipblock_size_of(f.toc.zip_block_sizes, block), pos)

\* The loop `for block in entry.start_block..=last_block`.  Once the block
\* index is past zip_block_sizes and the cursor is at or past the end of
\* the data, every further round reads 0 bytes and changes nothing, so the
\* rounds that are left (up to 2^32 of them) are skipped.
RECURSIVE inflate_blocks(_, _, _, _, _, _)
RECURSIVE inflate_next(_, _, _, _, _, _)
inflate_blocks(f, block, last_block, pos, output, steps) ==
    IF ~in_range(block, last_block)
       \/ (block >= Len(f.toc.zip_block_sizes) /\ pos >= Len(f.data))
    THEN [st |-> "ok", val |-> output, steps |-> steps, pos |-> pos]
    ELSE inflate_next(f, block, last_block, output, steps,
                      inflate_block(f, block, pos))

\* After the round s of a block: `?` on its error, or on to the next block.
inflate_next(f, block, last_block, output, steps, s) ==
    IF s.st = "err"
    THEN [st |-> "err", val |-> s.val, steps |-> Append(steps, s), pos |-> s.pos]
    ELSE inflate_blocks(f, block + 1, last_block, s.pos,
                        output \o s.val, Append(steps, s))

\* A variant that keeps everything.
truncate_none(v, len) == v

\* Vec::truncate
truncate(v, len) == SubSeq(v, 1, Min(Len(v), len))

\* output.truncate(entry.length as usize); Ok(output)
inflate_truncated(walk, length) ==
    IF walk.st = "err" THEN walk
    ELSE [walk EXCEPT !.val = truncate(walk.val, length)]

inflate_range(f, entry, last_block) ==
    IF last_block.st = "panic"
    THEN [st |-> "panic", val |-> "attempt to subtract with overflow",
          steps |-> <<>>, pos |-> 0]
    ELSE inflate_truncated(
             inflate_blocks(f, entry.start_block, last_block,
                            cursor_start(entry), <<>>, <<>>),
             entry.length)

\* f: the PsarcFile [header, toc, data].  Besides the io::Result the record
\* holds the rounds of the loop (steps) and the final cursor position.
inflate_entry_data(f, entry) ==
    inflate_range(f, entry,
                  last_block_of(entry.start_block,
                                num_blocks_of(entry.length, f.header.block_size)))

----------------------------------------------------------------------------
(* TextAsset::read_from, inflate_entry_as::<TextAsset> and read_manifest.  *)
(* A String is the sequence of its code points.                            *)

\* String::from_utf8: the code points of a well-formed UTF-8 byte string,
\* an error for anything else (a stray continuation byte, a truncated or
\* overlong sequence, a surrogate, a value above U+10FFFF).
RECURSIVE from_utf8_acc(_, _)
from_utf8_acc(b, chars) ==
    IF b = <<>> THEN Ok(chars)
    ELSE LET b1 == b[1]
             width == IF b1 < 128 THEN 1
                      ELSE IF b1 >= 194 /\ b1 <= 223 THEN 2
                      ELSE IF b1 >= 224 /\ b1 <= 239 THEN 3
                      ELSE IF b1 >= 240 /\ b1 <= 244 THEN 4
                      ELSE 0
             lo2 == IF b1 = 224 THEN 160 ELSE IF b1 = 240 THEN 144 ELSE 128
             hi2 == IF b1 = 237 THEN 159 ELSE IF b1 = 244 THEN 143 ELSE 191
             cont(i) == b[i] >= 128 /\ b[i] <= 191
             lead == IF width = 1 THEN b1
                     ELSE IF width = 2 THEN b1 - 192
                     ELSE IF width = 3 THEN b1 - 224
                     ELSE b1 - 240
             value[i \in 1..4] == IF i = 1 THEN lead
                                  ELSE value[i - 1] * 64 + (b[i] - 128)
         IN  IF width = 0 \/ Len(b) < width THEN Err("Other")
             ELSE IF width >= 2 /\ ~(b[2] >= lo2 /\ b[2] <= hi2) THEN Err("Other")
             ELSE IF \E i \in 3..width : ~cont(i) THEN Err("Other")
             ELSE from_utf8_acc(SubSeq(b, width + 1, Len(b)),
                                Append(chars, value[width]))

from_utf8(b) == from_utf8_acc(b, <<>>)

LF == 10
CR == 13

\* str::lines: the pieces ended by a line feed, without the line feed and
\* without one carriage return before it; a last piece that no line feed
\* ends is a line as it stands, unless it is empty.
RECURSIVE lines_acc(_, _, _)
lines_acc(text, line, out) ==
    IF text = <<>>
    THEN IF line = <<>> THEN out ELSE Append(out, line)
    ELSE IF Head(text) = LF
    THEN LET stripped == IF line # <<>> /\ line[Len(line)] = CR
                         THEN SubSeq(line, 1, Len(line) - 1) ELSE line
         IN  lines_acc(Tail(text), <<>>, Append(out, stripped))
    ELSE lines_acc(Tail(text), Append(line, Head(text)), out)

lines(text) == lines_acc(text, <<>>, <<>>)

\* What a caller sees of an io::Result.
Returned(r) == [st |-> r.st, val |-> r.val]

text_asset(text) ==
    IF text.st = "err" THEN text
    ELSE Ok([text |-> text.val, lines |-> lines(text.val)])

\* TextAsset::read_from on a reader at the start of buf.
TextAsset_read_from(buf) == text_asset(from_utf8(buf))

read_asset(inflated) ==
    IF inflated.st # "ok" THEN Returned(inflated)
    ELSE TextAsset_read_from(inflated.val)

\* inflate_entry_as::<TextAsset>
inflate_entry_as_TextAsset(f, entry) == read_asset(inflate_entry_data(f, entry))

\* "NamesBlock.bin"
NamesBlock == <<78, 97, 109, 101, 115, 66, 108, 111, 99, 107, 46, 98, 105, 110>>

\* A variant of the loop that names entries from entry 0 on:
\* entries[i].path = Some(line).
RECURSIVE assign_paths_from_zero(_, _, _)
assign_paths_from_zero(entries, lines_, i) ==
    IF i >= Len(lines_) THEN [st |-> "ok", val |-> <<>>, entries |-> entries]
    ELSE IF i >= Len(entries)
    THEN [st |-> "panic", val |-> "index out of bounds", entries |-> entries]
    ELSE assign_paths_from_zero([entries EXCEPT ![i + 1].path = Some(lines_[i + 1])],
                                lines_, i + 1)

\* The loop of read_manifest from line i (0-based) on:
\* entries[i + 1].path = Some(line), an indexing that panics out of bounds.
\* entries: the entries as the loop leaves them.
RECURSIVE assign_paths(_, _, _)
assign_paths(entries, lines_, i) ==
    IF i >= Len(lines_) THEN [st |-> "ok", val |-> <<>>, entries |-> entries]
    ELSE IF i + 1 >= Len(entries)
    THEN [st |-> "panic", val |-> "index out of bounds", entries |-> entries]
    ELSE assign_paths([entries EXCEPT ![i + 2].path = Some(lines_[i + 1])],
                      lines_, i + 1)

manifest_bound(g, bound) ==
    [st |-> bound.st, val |-> bound.val,
     file |-> [g EXCEPT !.toc.entries = bound.entries]]

manifest_asset(g, asset) ==
    IF asset.st # "ok" THEN [st |-> asset.st, val |-> asset.val, file |-> g]
    ELSE manifest_bound(g, assign_paths(g.toc.entries, asset.val.lines, 0))

\* read_manifest from the assignment of entries[0].path on.
manifest_named(g) ==
    manifest_asset(g, inflate_entry_as_TextAsset(g, g.toc.entries[1]))

\* A variant that, having read the manifest, leaves entry 0 with length 0.
read_manifest_consuming(f) ==
    IF f.toc.entries = <<>> THEN [st |-> "ok", val |-> <<>>, file |-> f]
    ELSE [manifest_named([f EXCEPT !.toc.entries[1].path = Some(NamesBlock)])
            EXCEPT !.file.toc.entries[1].length = 0]

\* read_manifest(&mut self): the io::Result, and the archive as the call
\* leaves it (f: [header, toc, data]).
read_manifest(f) ==
    IF f.toc.entries = <<>> THEN [st |-> "ok", val |-> <<>>, file |-> f]
    ELSE manifest_named([f EXCEPT !.toc.entries[1].path = Some(NamesBlock)])

----------------------------------------------------------------------------
(* PsarcFile::get_entry_by_file_name.  Paths are those of a Unix target:   *)
(* the separator is '/'.                                                   *)

SLASH == 47
DOT == 46

\* The pieces of a path between its separators.
RECURSIVE split_path(_, _, _)
split_path(path, piece, pieces) ==
    IF path = <<>> THEN Append(pieces, piece)
    ELSE IF Head(path) = SLASH
    THEN split_path(Tail(path), <<>>, Append(pieces, piece))
    ELSE split_path(Tail(path), Append(piece, Head(path)), pieces)

\* Path::components without the root and current-directory components:
\* empty pieces and "." pieces are no components.
RECURSIVE normal_or_parent(_)
normal_or_parent(pieces) ==
    IF pieces = <<>> THEN <<>>
    ELSE IF Head(pieces) = <<>> \/ Head(pieces) = <<DOT>>
    THEN normal_or_parent(Tail(pieces))
    ELSE <<Head(pieces)>> \o normal_or_parent(Tail(pieces))

\* The last component of the components comps, if it is a normal one.
last_normal(comps) ==
    IF comps = <<>> \/ comps[Len(comps)] = <<DOT, DOT>> THEN None
    ELSE Some(comps[Len(comps)])

\* Path::file_name: the last component if it is a normal one, None for a
\* path that ends in "..", is empty, or is only a root or ".".
file_name(path) == last_normal(normal_or_parent(split_path(path, <<>>, <<>>)))

\* A variant of the closure that compares the whole path.
entry_matches_whole_path(entry, name) ==
    entry.path.some /\ entry.path.str = name

\* The closure of the find: entry_file_name.to_string_lossy() == file_name,
\* false for an entry without a path or a path without a file name.
entry_matches(entry, name) ==
    entry.path.some /\ file_name(entry.path.str) = Some(name)

NoEntry == [some |-> FALSE, index |-> 0]

\* iter().find from entry i (1-based) on: the first entry that matches.
RECURSIVE find_entry(_, _, _)
find_entry(entries, name, i) ==
    IF i > Len(entries) THEN NoEntry
    ELSE IF entry_matches(entries[i], name) THEN [some |-> TRUE, index |-> i]
    ELSE find_entry(entries, name, i + 1)

\* get_entry_by_file_name(&self, file_name): Option<&PsarcTOCEntry>, the
\* reference given as the position of the entry in toc.entries.
get_entry_by_file_name(f, name) == find_entry(f.toc.entries, name, 1)

----------------------------------------------------------------------------
(* models.rs: the readers of the SNG body.  A reader works on the cursor   *)
(* over the plaintext body; its result carries the position the cursor is  *)
(* left at.                                                                *)

\* ReadBytesExt::read_u32::<LittleEndian> on four bytes already read (the
\* model draws b[4] < 128, so that the value is a TLC integer).
u32_le(b) == b[1] + 256 * (b[2] + 256 * (b[3] + 256 * b[4]))

\* ReadBytesExt::read_i32::<LittleEndian> on four bytes already read.
i32_le(b) ==
    b[1] + 256 * (b[2] + 256 * (b[3] + 256 * (IF b[4] < 128 THEN b[4] ELSE b[4] - 256)))

\* buf.iter().position(|&b| b == 0).unwrap_or(buf.len())
zero_position(buf) ==
    IF \E i \in 1..Len(buf) : buf[i] = 0
    THEN (CHOOSE i \in 1..Len(buf) : buf[i] = 0 /\ \A j \in 1..(i - 1) : buf[j] # 0) - 1
    ELSE Len(buf)

\* A variant that keeps the whole buffer.
fixed_string_untrimmed(buf) == from_utf8_lossy(buf)

fixed_string_of(buf) == from_utf8_lossy(SubSeq(buf, 1, zero_position(buf)))

\* read_fixed_string(reader, size): size bytes are taken, the text ends at
\* the first zero byte.
read_fixed_string(body, pos, size) ==
    IF pos + size > Len(body)
    THEN [st |-> "err", val |-> "UnexpectedEof", pos |-> pos]
    ELSE [st |-> "ok", val |-> fixed_string_of(SubSeq(body, pos + 1, pos + size)),
          pos |-> pos + size]

\* A reservation that no count fails.
capacity_overflow_never(n) == FALSE

\* Vec::with_capacity(n as usize) for an i32 n read from the body: a
\* negative n is a capacity above isize::MAX bytes, which panics.
capacity_overflow(n) == n < 0

\* A record type is the sequence of the reads its read_from makes: F(n), n
\* bytes of fixed-width fields; S(n), a fixed string of n bytes; V(t), a
\* counted array of records of type t (read_vec); N(e), an i32 count
\* followed by that many elements of layout e.
F(n) == [kind |-> "raw", size |-> n, of |-> <<>>]
S(n) == [kind |-> "str", size |-> n, of |-> <<>>]
V(t) == [kind |-> "vec", size |-> 4, of |-> t]
N(e) == [kind |-> "counted", size |-> 4, of |-> e]

\* The bytes of the fixed-width fields of the records that are read as
\* parts of others.
BendData32_size == 4 + 4 + 2 + 1 + 1
BendData_size == 32 * BendData32_size + 4
Rect_size == 4 + 4 + 4 + 4

\* Fields read one after the other with no string or count between them
\* are one F of the sum of their widths.
Schemas ==
    [Action |-> <<F(4), S(256)>>,
     Anchor |-> <<F(4 + 4 + 4 + 4 + 1 + 3 + 4 + 4)>>,
     AnchorExtension |-> <<F(4 + 1 + 4 + 2 + 1)>>,
     Fingerprint |-> <<F(4 + 4 + 4 + 4 + 4)>>,
     Note |-> <<F(4 + 4 + 4 + 4 + 1 + 1 + 1 + 1 + 4 + 4 + 4 + 4 + 2 * 2
                  + 2 + 2 + 2 + 1 + 1 + 1 + 1 + 1 + 1 + 1 + 2 + 4 + 4),
                N(<<F(BendData32_size)>>)>>,
     Bpm |-> <<F(4 + 2 + 2 + 4 + 4)>>,
     Chord |-> <<F(4 + 6 + 6 + 6 * 4), S(32)>>,
     ChordNotes |-> <<F(6 * 4 + 6 * BendData_size + 6 + 6 + 6 * 2)>>,
     Dna |-> <<F(4 + 4)>>,
     Event |-> <<F(4), S(256)>>,
     Metadata |-> <<F(8 + 8 + 8 + 8 + 4 + 4 + 1), S(32), F(2 + 4),
                    N(<<F(2)>>), F(4 + 4 + 4)>>,
     NLinkedDifficulty |-> <<F(4), N(<<F(4)>>)>>,
     Phrase |-> <<F(1 + 1 + 1 + 1 + 4 + 4), S(32)>>,
     PhraseExtraInfoByLevel |-> <<F(4 + 4 + 4 + 1 + 2 + 1)>>,
     PhraseIteration |-> <<F(4 + 4 + 4 + 3 * 4)>>,
     Section |-> <<S(32), F(4 + 4 + 4 + 4 + 4), S(36)>>,
     SymbolDefinition |-> <<S(12), F(Rect_size + Rect_size)>>,
     SymbolsHeader |-> <<F(8 * 4)>>,
     SymbolsTexture |-> <<S(128), F(4 + 4 + 4 + 4)>>,
     Tone |-> <<F(4 + 4)>>,
     Vocal |-> <<F(4 + 4 + 4), S(48)>>,
     Arrangement |-> <<F(4), V("Anchor"), V("AnchorExtension"), V("Fingerprint"),
                       V("Fingerprint"), V("Note"), N(<<F(4)>>), N(<<F(4)>>),
                       N(<<F(4)>>)>>]

\* reader.read_exact / read_u8 / read_i16 / read_i32 / read_f32 / read_f64:
\* the bytes of the field.
read_raw(body, pos, size) ==
    IF pos + size > Len(body)
    THEN [st |-> "err", val |-> "UnexpectedEof", pos |-> pos]
    ELSE [st |-> "ok", val |-> SubSeq(body, pos + 1, pos + size), pos |-> pos + size]

RECURSIVE read_schema(_, _, _, _, _)
RECURSIVE read_elems(_, _, _, _, _, _)
RECURSIVE read_vec(_, _, _, _)
RECURSIVE read_counted(_, _, _, _)

\* One read of a read_from.
read_field(body, pos, f, mem) ==
    CASE f.kind = "raw" -> read_raw(body, pos, f.size)
      [] f.kind = "str" -> read_fixed_string(body, pos, f.size)
      [] f.kind = "vec" -> read_vec(body, pos, f.of, mem)
      [] f.kind = "counted" -> read_counted(body, pos, f.of, mem)

\* The `?` after a read: an error ends the read_from.
schema_next(body, rest, vals, mem, r) ==
    IF r.st # "ok" THEN [st |-> r.st, val |-> r.val, pos |-> r.pos]
    ELSE read_schema(body, r.pos, rest, Append(vals, r.val), mem)

\* T::read_from(reader): the fields in the order of the reads.
read_schema(body, pos, schema, vals, mem) ==
    IF schema = <<>> THEN [st |-> "ok", val |-> vals, pos |-> pos]
    ELSE schema_next(body, Tail(schema), vals, mem,
                     read_field(body, pos, Head(schema), mem))

elems_next(body, schema, count, v, mem, r) ==
    IF r.st # "ok" THEN r
    ELSE read_elems(body, r.pos, schema, count, Append(v, r.val), mem)

\* for _ in 0..count { v.push(read_func(reader)?) }
read_elems(body, pos, schema, count, v, mem) ==
    IF Len(v) >= count THEN [st |-> "ok", val |-> v, pos |-> pos]
    ELSE elems_next(body, schema, count, v, mem,
                    read_schema(body, pos, schema, <<>>, mem))

vec_filled(count, r) ==
    [st |-> r.st, val |-> r.val, pos |-> r.pos, reserved |-> count]

\* let mut v = Vec::with_capacity(count); then the loop.  reserved: the
\* capacity asked of the allocator.
vec_reserved(body, pos, type, mem, count) ==
    IF ~with_capacity(count, mem)
    THEN [st |-> "abort", val |-> "memory allocation failed", pos |-> pos,
          reserved |-> count]
    ELSE vec_filled(count, read_elems(body, pos, Schemas[type], count, <<>>, mem))

vec_counted(body, pos, type, mem, c) ==
    IF c.st = "err"
    THEN [st |-> "err", val |-> "UnexpectedEof", pos |-> pos, reserved |-> 0]
    ELSE vec_reserved(body, pos + 4, type, mem, u32_le(c.val))

\* read_vec(reader, T::read_from): the u32 count, then the records.
read_vec(body, pos, type, mem) ==
    vec_counted(body, pos, type, mem, read_exact(body, pos, 4))

counted_filled(n, r) ==
    IF r.st # "ok" THEN r
    ELSE [st |-> "ok", val |-> [count |-> n, items |-> r.val], pos |-> r.pos]

counted_reserved(body, pos, elem, mem, n) ==
    IF capacity_overflow(n)
    THEN [st |-> "panic", val |-> "capacity overflow", pos |-> pos]
    ELSE IF ~with_capacity(n, mem)
    THEN [st |-> "abort", val |-> "memory allocation failed", pos |-> pos]
    ELSE counted_filled(n, read_elems(body, pos, elem, n, <<>>, mem))

counted_read(body, pos, elem, mem, c) ==
    IF c.st = "err" THEN [st |-> "err", val |-> "UnexpectedEof", pos |-> pos]
    ELSE counted_reserved(body, pos + 4, elem, mem, i32_le(c.val))

\* An i32 count field, Vec::with_capacity(count as usize) and the loop that
\* reads that many elements (read_vec_of_f32, read_vec_of_i32, the bend
\* data of a Note, the tuning of Metadata).
read_counted(body, pos, elem, mem) ==
    counted_read(body, pos, elem, mem, read_exact(body, pos, 4))

----------------------------------------------------------------------------
(* decryptor.rs: DecryptStream::new_sng.  AES-256-CTR is modelled on       *)
(* one-byte blocks: the keystream byte for position i is the block cipher  *)
(* under SNG_KEY_PC applied to the counter, the last byte of the IV plus   *)
(* i; it is taken off the ciphertext byte.  A zlib stream is two header    *)
(* bytes followed by the Deflate tokens of unzip_block.                    *)

SNG_IDENTIFIER == 74
SNG_ASSET_FLAG_COMPRESSED == 1
SNG_HEADER_LEN == 24

\* The block cipher under SNG_KEY_PC: another permutation of the bytes.
sng_block(x) == (x * 91 + 17) % 256

apply_keystream(iv, c) ==
    [i \in 1..Len(c) |-> (c[i] + 256 - sng_block((iv[16] + i - 1) % 256)) % 256]

\* ZlibDecoder: CM = 8 in the low half of the first byte and the two bytes
\* a multiple of 31; a stream that ends early yields what was decoded.
zlib_decode(s) ==
    IF Len(s) < 2 THEN Ok(<<>>)
    ELSE IF s[1] % 16 # 8 \/ (s[1] * 256 + s[2]) % 31 # 0 THEN Err("InvalidInput")
    ELSE deflate_decode(SubSeq(s, 3, Len(s)), <<>>)

\* A variant that reads the identifier most significant byte first.
is_sng_identifier_be(id_buf) == u32_be(id_buf) = SNG_IDENTIFIER

\* identifier == 0x4A, the identifier read as a little-endian u32.
is_sng_identifier(id_buf) == u32_le(id_buf) = SNG_IDENTIFIER

sng_stream(st, val, decrypted) == [st |-> st, val |-> val, decrypted |-> decrypted]

sng_decompressed(r, n) == sng_stream(r.st, r.val, n)

\* The compressed case: four bytes of uncompressed size, then the stream.
sng_inflate(plain, mem) ==
    IF Len(plain) < 4 THEN sng_stream("err", "UnexpectedEof", Len(plain))
    ELSE IF ~with_capacity(u32_le(SubSeq(plain, 1, 4)), mem)
    THEN sng_stream("abort", "memory allocation failed", Len(plain))
    ELSE sng_decompressed(zlib_decode(SubSeq(plain, 5, Len(plain))), Len(plain))

sng_final_data(asset_flags, plain, mem) ==
    IF asset_flags % 2 = SNG_ASSET_FLAG_COMPRESSED THEN sng_inflate(plain, mem)
    ELSE sng_stream("ok", plain, Len(plain))

sng_encrypted(sng_hdr, encrypted_data, mem) ==
    IF encrypted_data.st = "err" THEN sng_stream("err", "UnexpectedEof", 0)
    ELSE sng_final_data(u32_le(SubSeq(sng_hdr, 5, 8)),
                        apply_keystream(SubSeq(sng_hdr, 9, 24), encrypted_data.val),
                        mem)

sng_header(buf, length, mem, sng_hdr) ==
    IF sng_hdr.st = "err" THEN sng_stream("err", "UnexpectedEof", 0)
    ELSE IF ~is_sng_identifier(SubSeq(sng_hdr.val, 1, 4))
    THEN sng_stream("err", "InvalidData", 0)
    ELSE IF length < SNG_HEADER_LEN
    THEN sng_stream("panic", IF build = "debug"
                             THEN "attempt to subtract with overflow"
                             ELSE "capacity overflow", 0)
    ELSE sng_encrypted(sng_hdr.val,
                       read_exact(buf, SNG_HEADER_LEN, length - SNG_HEADER_LEN), mem)

\* DecryptStream::new_sng(input, length) with the input at its start.  val:
\* the plaintext body the cursor is over; decrypted: the number of bytes
\* the keystream was applied to.
DecryptStream_new_sng(buf, length, mem) ==
    sng_header(buf, length, mem, read_exact(buf, 0, SNG_HEADER_LEN))

----------------------------------------------------------------------------
(* psarc.rs: SngAsset::read_from *)

NoVec == [some |-> FALSE, vec |-> <<>>]
SomeVec(v) == [some |-> TRUE, vec |-> v]

\* SngAsset::default()
SngAsset_default ==
    [bpms |-> <<>>, phrases |-> <<>>, chords |-> <<>>, chord_notes |-> <<>>,
     vocals |-> <<>>, symbol_headers |-> NoVec, symbol_textures |-> NoVec,
     symbol_definitions |-> NoVec, phrase_iterations |-> <<>>,
     phrase_extra_info |-> <<>>, nld |-> <<>>, actions |-> <<>>,
     events |-> <<>>, tones |-> <<>>, dnas |-> <<>>, sections |-> <<>>,
     arrangements |-> <<>>, metadata |-> <<>>]

Section_(field, of, optional) == [field |-> field, of |-> of, optional |-> optional]

\* The counted arrays in the order read_from reads them.
SngHead ==
    <<Section_("bpms", "Bpm", FALSE), Section_("phrases", "Phrase", FALSE),
      Section_("chords", "Chord", FALSE),
      Section_("chord_notes", "ChordNotes", FALSE),
      Section_("vocals", "Vocal", FALSE)>>

SngSymbols ==
    <<Section_("symbol_headers", "SymbolsHeader", TRUE),
      Section_("symbol_textures", "SymbolsTexture", TRUE),
      Section_("symbol_definitions", "SymbolDefinition", TRUE)>>

\* A variant that reads the Events before the Actions.
SngTail_events_first ==
    <<Section_("phrase_iterations", "PhraseIteration", FALSE),
      Section_("phrase_extra_info", "PhraseExtraInfoByLevel", FALSE),
      Section_("nld", "NLinkedDifficulty", FALSE),
      Section_("events", "Event", FALSE), Section_("actions", "Action", FALSE),
      Section_("tones", "Tone", FALSE), Section_("dnas", "Dna", FALSE),
      Section_("sections", "Section", FALSE),
      Section_("arrangements", "Arrangement", FALSE)>>

SngTail ==
    <<Section_("phrase_iterations", "PhraseIteration", FALSE),
      Section_("phrase_extra_info", "PhraseExtraInfoByLevel", FALSE),
      Section_("nld", "NLinkedDifficulty", FALSE),
      Section_("actions", "Action", FALSE), Section_("events", "Event", FALSE),
      Section_("tones", "Tone", FALSE), Section_("dnas", "Dna", FALSE),
      Section_("sections", "Section", FALSE),
      Section_("arrangements", "Arrangement", FALSE)>>

\* What the parse has done so far: st/val as an io::Result (val the error
\* or the document), steps one record per section read, pos the cursor.
parse(st, val, steps, pos) == [st |-> st, val |-> val, steps |-> steps, pos |-> pos]

step(s, at, r) ==
    [field |-> s.field, at |-> at, count |-> r.reserved, to |-> r.pos, st |-> r.st]

RECURSIVE read_sections(_, _, _, _)

section_next(body, rest, mem, p, s, r) ==
    IF r.st # "ok" THEN parse(r.st, r.val, Append(p.steps, step(s, p.pos, r)), r.pos)
    ELSE read_sections(body, rest, mem,
           parse("ok", [p.val EXCEPT ![s.field] = IF s.optional THEN SomeVec(r.val)
                                                  ELSE r.val],
                 Append(p.steps, step(s, p.pos, r)), r.pos))

\* self.x = read_vec(&mut decryptor.reader, X::read_from)? for each of the
\* sections in turn, from the state p of the parse.
read_sections(body, sections, mem, p) ==
    IF p.st # "ok" \/ sections = <<>> THEN p
    ELSE section_next(body, Tail(sections), mem, p, Head(sections),
                      read_vec(body, p.pos, Head(sections).of, mem))

\* A variant that reads the three symbol arrays whatever the vocals are.
has_symbols_always(vocals) == TRUE

\* !self.vocals.is_empty()
has_symbols(vocals) == vocals # <<>>

sng_symbols(body, mem, p) ==
    IF p.st = "ok" /\ has_symbols(p.val.vocals)
    THEN read_sections(body, SngSymbols, mem, p)
    ELSE p

metadata_step(at, r) ==
    [field |-> "metadata", at |-> at, count |-> 0, to |-> r.pos, st |-> r.st]

sng_metadata_read(p, r) ==
    parse(r.st, IF r.st = "ok" THEN [p.val EXCEPT !.metadata = r.val] ELSE r.val,
          Append(p.steps, metadata_step(p.pos, r)), r.pos)

sng_metadata(body, mem, p) ==
    IF p.st # "ok" THEN p
    ELSE sng_metadata_read(p, read_schema(body, p.pos, Schemas.Metadata, <<>>, mem))

sng_body(body, mem) ==
    sng_metadata(body, mem,
      read_sections(body, SngTail, mem,
        sng_symbols(body, mem,
          read_sections(body, SngHead, mem, parse("ok", SngAsset_default, <<>>, 0)))))

sng_asset(st, val, steps, decrypted) ==
    [st |-> st, val |-> val, steps |-> steps, decrypted |-> decrypted]

sng_parsed(p, decrypted) == sng_asset(p.st, p.val, p.steps, decrypted)

sng_decrypted(decryptor, mem) ==
    IF decryptor.st # "ok"
    THEN sng_asset(decryptor.st, decryptor.val, <<>>, decryptor.decrypted)
    ELSE sng_parsed(sng_body(decryptor.val, mem), decryptor.decrypted)

\* SngAsset::read_from(&mut self, reader, length) on a reader at the start
\* of buf.  An error leaves no document to the caller (inflate_entry_as
\* drops the asset).
SngAsset_read_from(buf, length, mem) ==
    sng_decrypted(DecryptStream_new_sng(buf, length, mem), mem)

----------------------------------------------------------------------------
(* Placeholders for the parts of the state a specification does not use *)

NoResult == [st |-> "none", val |-> <<>>]
NoHeader == [identifier |-> <<>>, version |-> 0, compression |-> <<>>,
             toc_size |-> 0, toc_entry_size |-> 0, toc_offset |-> 0,
             entry_count |-> 0, block_size |-> 0, archive_flags |-> 0]
NoToc    == [entries |-> <<>>, encrypted |-> FALSE, zip_block_sizes |-> <<>>]
NoPrev   == [arg |-> 0, res |-> NoResult]
NoCall   == [op |-> "none", arg |-> 0, res |-> NoResult, prev |-> NoPrev]

----------------------------------------------------------------------------
(* inflate_entry_data called from several threads on one &PsarcFile.  A    *)
(* call owns its locals (last_block, cursor, output, the block index); a   *)
(* step is one round of its loop.                                          *)

NumCalls == 2

Threads == 1..NumCalls

IdleCall ==
    [phase |-> "idle", entry |-> 0, block |-> 0,
     last_block |-> [st |-> "ok", wrapped |-> FALSE, value |-> 0],
     pos |-> 0, output |-> <<>>, res |-> NoResult]

NoCalls == [t \in Threads |-> IdleCall]

\* A variant with one cursor for all the calls: a seek or a read of one
\* call moves the position of every call.
set_position_shared(cs, t, pos) == [u \in DOMAIN cs |-> [cs[u] EXCEPT !.pos = pos]]

\* The cursor is a local of the call: Cursor::new(&self.data) borrows the
\* bytes and holds its own position.
set_position(cs, t, pos) == [cs EXCEPT ![t].pos = pos]

\* The locals of a call of inflate_entry_data for entry i at the head of
\* its loop; the call is over at once when last_block panics.
call_begun(i, entry, last_block) ==
    IF last_block.st = "panic"
    THEN [IdleCall EXCEPT !.phase = "done", !.entry = i,
                          !.res = Panic("attempt to subtract with overflow")]
    ELSE [IdleCall EXCEPT !.phase = "walking", !.entry = i,
                          !.block = entry.start_block, !.last_block = last_block]

\* The loop has no round left (see inflate_blocks).
walk_done(f, c) ==
    \/ ~in_range(c.block, c.last_block)
    \/ (c.block >= Len(f.toc.zip_block_sizes) /\ c.pos >= Len(f.data))

\* output.truncate(entry.length as usize); Ok(output)
call_returned(c, entry) ==
    [c EXCEPT !.phase = "done", !.res = Ok(truncate(c.output, entry.length))]

\* The locals after the round s: `?` returns its error, Ok appends.
call_after(c, s) ==
    IF s.st = "err" THEN [c EXCEPT !.phase = "done", !.res = Err(s.val)]
    ELSE [c EXCEPT !.block = c.block + 1, !.output = c.output \o s.val]

----------------------------------------------------------------------------
(* Building input files: the inverse of the parsers, used only to draw the *)
(* inputs of the specifications.                                           *)

be_bytes(v, n) ==
    IF n = 5 THEN <<0>> \o [i \in 1..4 |-> (v \div (256 ^ (4 - i))) % 256]
    ELSE [i \in 1..n |-> (v \div (256 ^ (n - i))) % 256]

RECURSIVE cfb_encrypt_acc(_, _)
cfb_encrypt_acc(p, c) ==
    IF Len(c) = Len(p) THEN c
    ELSE LET i == Len(c) + 1
             prev == IF i = 1 THEN PSARC_IV ELSE c[i - 1]
         IN  cfb_encrypt_acc(p, Append(c, (p[i] + aes_block(prev)) % 256))

cfb_encrypt(p) == cfb_encrypt_acc(p, <<>>)

RECURSIVE Flatten(_)
Flatten(ss) == IF ss = <<>> THEN <<>> ELSE Head(ss) \o Flatten(Tail(ss))

PSAR == <<80, 83, 65, 82>>
zlib == <<122, 108, 105, 98>>

\* e: [hash, start_block, length, offset], hash one byte repeated 16 times.
EntryBytes(e) ==
    [i \in 1..16 |-> e.hash] \o be_bytes(e.start_block, 4)
        \o be_bytes(e.length, 5) \o be_bytes(e.offset, 5)

\* r: the header fields, the entry records and block sizes written to the
\* TOC region (each size on r.width bytes, then r.slack, bytes that belong
\* to no record), and the payload after the region.
MakeFile(r) ==
    LET plain  == Flatten([i \in 1..Len(r.entries) |-> EntryBytes(r.entries[i])])
                    \o Flatten([i \in 1..Len(r.sizes) |-> be_bytes(r.sizes[i], r.width)])
                    \o r.slack
        region == IF contains(r.archive_flags, TOC_ENCRYPTED)
                  THEN cfb_encrypt(plain) ELSE plain
    IN  PSAR \o be_bytes(4, 4) \o zlib \o be_bytes(r.toc_size, 4)
          \o be_bytes(r.toc_entry_size, 4) \o be_bytes(r.entry_count, 4)
          \o be_bytes(r.block_size, 4) \o be_bytes(r.archive_flags, 4)
          \o region \o r.payload

----------------------------------------------------------------------------
(* The state machine.  A specification draws its input from a set of byte  *)
(* strings; the actions are the calls a user of the library makes.         *)

InitWith(inputs) ==
    /\ input \in inputs
    /\ build \in {"debug", "release"}
    /\ pc = "start"
    /\ hdr = NoResult
    /\ header = NoHeader
    /\ toc = NoToc
    /\ data = <<>>
    /\ last = NoCall
    /\ calls = NoCalls

\* A stand-alone PsarcFileHeader::read_from(&mut reader).
ReadHeader ==
    /\ pc = "start"
    /\ hdr' = PsarcFileHeader_read_from(input)
    /\ pc' = "read"
    /\ UNCHANGED <<input, build, header, toc, data, last, calls>>

OpenReturns(r) ==
    /\ pc' = IF r.st = "ok" THEN "open"
             ELSE IF r.st = "err" THEN "failed"
             ELSE IF r.st = "abort" THEN "aborted" ELSE "panicked"
    /\ header' = IF r.st = "ok" THEN r.val.header ELSE header
    /\ toc' = IF r.st = "ok" THEN r.val.toc ELSE toc
    /\ data' = IF r.st = "ok" THEN r.val.data ELSE data
    /\ last' = [op |-> "open", arg |-> 0, prev |-> NoPrev,
                res |-> IF r.st = "ok" THEN Ok(<<>>) ELSE r]

\* PsarcFile::open(&mut reader), in a run where the allocator grants up to
\* some capacity.
Open ==
    /\ pc = "start"
    /\ \E mem \in MemLimits : OpenReturns(PsarcFile_open(input, mem))
    /\ UNCHANGED <<input, build, hdr, calls>>

\* The opened archive.
File == [header |-> header, toc |-> toc, data |-> data]

\* A call of inflate_entry_data for entry i returns r.  A panic ends the run.
InflateReturns(i, r) ==
    /\ last' = [op |-> "inflate", arg |-> i, res |-> r,
                prev |-> IF last.op = "inflate"
                         THEN [arg |-> last.arg, res |-> Returned(last.res)]
                         ELSE NoPrev]
    /\ pc' = IF r.st = "panic" THEN "panicked" ELSE "open"

TakingBufferReturns(i, r) ==
    /\ InflateReturns(i, r)
    /\ data' = IF r.st = "ok" THEN data ELSE <<>>

\* A variant that moves the buffer out of the archive for the walk and
\* puts it back only when the walk succeeds.
InflateEntryDataTakingBuffer(i) ==
    /\ pc = "open"
    /\ i \in 1..Len(toc.entries)
    /\ TakingBufferReturns(i, inflate_entry_data(File, toc.entries[i]))
    /\ UNCHANGED <<input, build, hdr, header, toc, calls>>

\* file.inflate_entry_data(&file.toc.entries[i - 1]); &self is shared, so
\* nothing of the archive is assigned.
InflateEntryData(i) ==
    /\ pc = "open"
    /\ i \in 1..Len(toc.entries)
    /\ InflateReturns(i, inflate_entry_data(File, toc.entries[i]))
    /\ UNCHANGED <<input, build, hdr, header, toc, data, calls>>

ManifestReturns(r) ==
    /\ last' = [op |-> "read_manifest", arg |-> 0, res |-> Returned(r),
                prev |-> NoPrev]
    /\ toc' = r.file.toc
    /\ pc' = IF r.st = "panic" THEN "panicked" ELSE "open"

\* file.read_manifest()
ReadManifest ==
    /\ pc = "open"
    /\ ManifestReturns(read_manifest(File))
    /\ UNCHANGED <<input, build, hdr, header, data, calls>>

\* file.get_entry_by_file_name(name)
GetEntryByFileName(name) ==
    /\ pc = "open"
    /\ last' = [op |-> "lookup", arg |-> name, prev |-> NoPrev,
                res |-> get_entry_by_file_name(File, name)]
    /\ UNCHANGED <<input, build, pc, hdr, header, toc, data, calls>>

\* SngAsset::default().read_from(&mut cursor, cursor_length) on a cursor
\* over the input, as inflate_entry_as::<SngAsset> calls it.  mem: what the
\* allocator grants in this run.
ParseSng(mem) ==
    /\ pc = "start"
    /\ last' = [op |-> "sng", arg |-> mem, prev |-> NoPrev,
                res |-> SngAsset_read_from(input, Len(input), mem)]
    /\ pc' = "parsed"
    /\ UNCHANGED <<input, build, hdr, header, toc, data, calls>>

\* read_fixed_string(&mut reader, size) with the reader at pos of the input.
ReadFixedString(pos, size) ==
    /\ pc = "start"
    /\ pos <= Len(input)
    /\ last' = [op |-> "read_fixed_string", arg |-> [pos |-> pos, size |-> size],
                prev |-> NoPrev, res |-> read_fixed_string(input, pos, size)]
    /\ pc' = "read"
    /\ UNCHANGED <<input, build, hdr, header, toc, data, calls>>

\* read_vec(&mut reader, T::read_from) with the reader at the start of the
\* input, for the record type T.
ReadVec(type, mem) ==
    /\ pc = "start"
    /\ last' = [op |-> "read_vec", arg |-> [type |-> type, mem |-> mem],
                prev |-> NoPrev, res |-> read_vec(input, 0, type, mem)]
    /\ pc' = "read"
    /\ UNCHANGED <<input, build, hdr, header, toc, data, calls>>

\* read_u40_be(&mut reader) with the reader at pos of the input.
ReadU40Be(pos) ==
    /\ pc = "start"
    /\ pos <= Len(input)
    /\ last' = [op |-> "read_u40_be", arg |-> pos, prev |-> NoPrev,
                res |-> read_u40_be_at(input, pos)]
    /\ pc' = "read"
    /\ UNCHANGED <<input, build, hdr, header, toc, data, calls>>

\* Thread t calls file.inflate_entry_data(&file.toc.entries[i - 1]) and
\* runs it up to the head of the loop: last_block, the cursor, the seek.
\* The overflow panic comes before the cursor exists.
BeginReturns(t, i, last_block) ==
    calls' = IF last_block.st = "panic"
             THEN [calls EXCEPT ![t] = call_begun(i, toc.entries[i], last_block)]
             ELSE set_position(
                    [calls EXCEPT ![t] = call_begun(i, toc.entries[i], last_block)],
                    t, cursor_start(toc.entries[i]))

BeginInflate(t, i) ==
    /\ pc = "open"
    /\ calls[t].phase # "walking"
    /\ i \in 1..Len(toc.entries)
    /\ BeginReturns(t, i, last_block_of(toc.entries[i].start_block,
                                        num_blocks_of(toc.entries[i].length,
                                                      header.block_size)))
    /\ UNCHANGED <<input, build, pc, hdr, header, toc, data, last>>

StepReturns(t, s) ==
    calls' = set_position([calls EXCEPT ![t] = call_after(calls[t], s)], t, s.pos)

\* Thread t runs one round of the loop of its call, or leaves the loop
\* and returns.
StepInflate(t) ==
    /\ pc = "open"
    /\ calls[t].phase = "walking"
    /\ IF walk_done(File, calls[t])
       THEN calls' = [calls EXCEPT ![t] =
                        call_returned(calls[t], toc.entries[calls[t].entry])]
       ELSE StepReturns(t, inflate_block(File, calls[t].block, calls[t].pos))
    /\ UNCHANGED <<input, build, pc, hdr, header, toc, data, last>>

AsReturns(i, r) ==
    /\ last' = [op |-> "inflate_as", arg |-> i, prev |-> NoPrev, res |-> r]
    /\ pc' = IF r.st = "panic" THEN "panicked" ELSE "open"

\* file.inflate_entry_as::<TextAsset>(&file.toc.entries[i - 1]): &self is
\* shared, the asset is built from a copy of the inflated bytes.
InflateEntryAs(i) ==
    /\ pc = "open"
    /\ i \in 1..Len(toc.entries)
    /\ AsReturns(i, Returned(inflate_entry_as_TextAsset(File, toc.entries[i])))
    /\ UNCHANGED <<input, build, hdr, header, toc, data, calls>>

----------------------------------------------------------------------------
(* SpecHeader: PsarcFileHeader::read_from alone, on byte strings of every  *)
(* length around 32 whose eight words are drawn from a few byte patterns.  *)

\* Longest input tried beyond the 32 bytes of the header.
MaxExtra == 1

WordPatterns == { <<0, 0, 0, 0>>, <<1, 2, 3, 4>>, <<127, 255, 254, 4>> }
TagPatterns  == { PSAR, zlib, <<255, 0, 88, 4>> }
FlagPatterns == { <<0, 0, 0, 0>>, <<0, 0, 0, 4>>, <<0, 0, 1, 3>>, <<1, 2, 3, 255>> }

HeaderInputs ==
    { SubSeq(id \o w \o comp \o <<0, 0, 0, 62>> \o w \o sz \o bs \o fl \o <<7, 9, 4, 1>>,
             1, n) :
        id \in TagPatterns, comp \in TagPatterns, w \in WordPatterns,
        sz \in WordPatterns, bs \in WordPatterns, fl \in FlagPatterns,
        n \in {0, 3, 4, 28, 31} \cup (32..(32 + MaxExtra)) }

InitHeader == InitWith(HeaderInputs)

NextHeader == ReadHeader

SpecHeader == InitHeader /\ [][NextHeader]_vars

\* The big-endian u32 at a byte offset of the input, as the claim words it.
InputWord(off) ==
    input[off + 1] * 16777216 + input[off + 2] * 65536
        + input[off + 3] * 256 + input[off + 4]

\* C9: on at least 32 bytes PsarcFileHeader::read_from succeeds whatever the
\* identifier and compression bytes are, decodes version, toc_size,
\* toc_entry_size, entry_count, block_size and the flags word as big-endian
\* u32 at offsets 4, 12, 16, 20, 24 and 28 (the flags keep the declared bits
\* of that word), has TOC_ENCRYPTED iff the word's bit of value 4 is set and
\* records toc_offset = 32; on fewer than 32 bytes it returns an error.
C9_HeaderDecoded ==
    pc = "read" =>
        IF Len(input) >= 32
        THEN /\ hdr.st = "ok"
             /\ hdr.val.version = InputWord(4)
             /\ hdr.val.toc_size = InputWord(12)
             /\ hdr.val.toc_entry_size = InputWord(16)
             /\ hdr.val.entry_count = InputWord(20)
             /\ hdr.val.block_size = InputWord(24)
             /\ hdr.val.archive_flags = InputWord(28) % 256
             /\ contains(hdr.val.archive_flags, TOC_ENCRYPTED)
                    <=> (InputWord(28) \div 4) % 2 = 1
             /\ hdr.val.toc_offset = 32
        ELSE hdr.st = "err"

\* A 33-byte input whose identifier is not "PSAR" and whose flags word has
\* bit 4 and undeclared high bits set was parsed.
C9_Witness ==
    /\ pc = "read"
    /\ Len(input) = 33
    /\ SubSeq(input, 1, 4) # PSAR
    /\ hdr.st = "ok"
    /\ hdr.val.version = 16909060
    /\ InputWord(28) = 16909311
    /\ contains(hdr.val.archive_flags, TOC_ENCRYPTED)

----------------------------------------------------------------------------
(* SpecOpen: PsarcFile::open on files whose header fields vary: block      *)
(* sizes on both sides of every rounding threshold of log_256, entry       *)
(* sizes other than 30, TOC sizes that disagree with the layout, plain and *)
(* encrypted TOCs, truncated files.                                        *)

\* Most entries and most block sizes written to a TOC.
MaxOpenEntries == 2
MaxOpenSizes == 2

OpenBlockSizes ==
    {0, 1, 15, 16, 300, 4095, 4096, 65536, 65537, 1048575, 1048576,
     16777216, 268435456}

\* The width the block sizes are written with: the one the parser will use
\* when it supports it, two bytes otherwise.
WidthFor(bs) == IF log256_round(bs) \in {2, 3, 4} THEN log256_round(bs) ELSE 2

OpenEntry(k) == [hash |-> 160 + k, start_block |-> k, length |-> 3, offset |-> 200 + 3 * k]

OpenRecipes ==
    { [block_size |-> bs, archive_flags |-> fl, toc_entry_size |-> tes,
       entry_count |-> ec,
       toc_size |-> 32 + ec * (IF byLayout THEN 30 ELSE tes) + nz * WidthFor(bs) + d,
       entries |-> [k \in 1..ec |-> OpenEntry(k - 1)],
       width |-> WidthFor(bs),
       sizes |-> [k \in 1..nz |-> 5 + k],
       slack |-> [k \in 1..40 |-> 120],
       payload |-> <<>>] :
        bs \in OpenBlockSizes, fl \in {0, 4}, tes \in {30, 20},
        ec \in 0..MaxOpenEntries, nz \in 0..MaxOpenSizes,
        byLayout \in BOOLEAN, d \in {0, -1} }

\* Headers that declare far more entries than the file holds: the largest
\* count whose product with the entry size is still a TLC integer.
HugeCountRecipes ==
    { [block_size |-> 65536, archive_flags |-> fl, toc_entry_size |-> tes,
       entry_count |-> Unlimited,
       toc_size |-> ts,
       entries |-> [k \in 1..ec |-> OpenEntry(k - 1)],
       width |-> 2,
       sizes |-> <<>>,
       slack |-> <<>>,
       payload |-> <<>>] :
        fl \in {0, 4}, tes \in {0, 1}, ts \in {32, 92}, ec \in {0, 2} }

\* More block sizes than the ceiling of z_num.
ManySizes == 501

\* Bytes that stand for an encrypted TOC region: what they decrypt to is
\* the plaintext the sizes are parsed from.
CipherBytes(n) == [k \in 1..n |-> (k * 7) % 251]

\* TOCs that declare and hold block sizes around the ceiling, without
\* entries.  A plain TOC holds the sizes 6, 7, ... on 2, 3 or 4 bytes; an
\* encrypted one is drawn as ciphertext (sizes of 2 or 3 bytes).
ManySizesDrawn ==
    { [block_size |-> bs, archive_flags |-> fl, toc_entry_size |-> 30,
       entry_count |-> 0,
       toc_size |-> 32 + declared * WidthFor(bs) + d,
       entries |-> <<>>,
       width |-> WidthFor(bs),
       sizes |-> IF fl = 0 THEN [k \in 1..held |-> 5 + k] ELSE <<>>,
       slack |-> <<>>,
       payload |-> IF fl = 0 THEN <<>> ELSE CipherBytes(held * WidthFor(bs) + 40)] :
        bs \in {65536, 1048576, 268435456}, fl \in {0, 4},
        declared \in {ManySizes - 2, ManySizes - 1, ManySizes, ManySizes + 99},
        held \in {ManySizes - 1, ManySizes + 100},
        d \in {0, 1} }

ManySizesRecipes ==
    { r \in ManySizesDrawn : r.archive_flags = 0 \/ r.width < 4 }

\* Files that end where the TOC ends: toc_size is the length of the file.
ExactRecipes ==
    { [block_size |-> 65536, archive_flags |-> fl, toc_entry_size |-> 30,
       entry_count |-> ec,
       toc_size |-> 32 + ec * 30 + nz * 2,
       entries |-> [k \in 1..ec |-> OpenEntry(k - 1)],
       width |-> 2,
       sizes |-> [k \in 1..nz |-> 5 + k],
       slack |-> <<>>,
       payload |-> <<>>] :
        fl \in {0, 4}, ec \in 0..MaxOpenEntries, nz \in 0..MaxOpenSizes }

OpenInputs ==
    { SubSeq(MakeFile(r), 1, Len(MakeFile(r)) - cut) :
        r \in OpenRecipes, cut \in {0, 39} }
      \cup { MakeFile(r) : r \in HugeCountRecipes }
      \cup { MakeFile(r) : r \in ManySizesRecipes }
      \cup { MakeFile(r) : r \in ExactRecipes }

InitOpen == InitWith(OpenInputs)

NextOpen == Open

SpecOpen == InitOpen /\ [][NextOpen]_vars

IsPowerOf256(n) == n \in {1, 256, 65536, 16777216}

\* C10 as stated: for every archive that open accepts, the parsed header's
\* block_size is a power of 256.
C10_BlockSizePowerOf256 ==
    pc = "open" => IsPowerOf256(header.block_size)

\* C10 as amended: for every archive that open accepts, block_size rounds
\* to a supported width rather than being a power of 256: it is at least
\* 16 (round(log_256) >= 1), and at least 4096 (round(log_256) in 2..4)
\* whenever the TOC holds at least one block size.
C10_BlockSizeRoundsToWidth ==
    pc = "open" =>
        /\ header.block_size >= 16
        /\ toc.zip_block_sizes # <<>> => header.block_size >= 4096

\* An archive with block_size 65537 and a non-empty block-size array is open.
C10_Witness ==
    /\ pc = "open"
    /\ header.block_size = 65537
    /\ Len(toc.zip_block_sizes) = 2
    /\ Len(toc.entries) = 2

\* The bytes the TOC is parsed from: the file after the header, or what
\* the toc_size bytes after the header decrypt to.
TocPlain ==
    IF contains(header.archive_flags, TOC_ENCRYPTED)
    THEN cfb_decrypt(SubSeq(input, 33, 32 + header.toc_size))
    ELSE SubSeq(input, 33, Len(input))

\* toc_size - 32 - entry_count * toc_entry_size of the parsed header.
Remaining == header.toc_size - 32 - header.entry_count * header.toc_entry_size

\* b_num of the parsed header.
BNum == log256_round(header.block_size)

\* The bytes of block size k: b_num bytes, the sizes following one another
\* from where the entry loop stopped reading.
SizeBytes(k) ==
    SubSeq(TocPlain, 30 * Len(toc.entries) + (k - 1) * BNum + 1,
                     30 * Len(toc.entries) + k * BNum)

\* C21: after a successful TOC parse, zip_block_sizes has
\* min(floor((toc_size - 32 - entry_count * toc_entry_size) / b_num), 500)
\* elements, never more than 500, and element k is the big-endian value of
\* the k-th group of b_num consecutive bytes.
C21_ZipBlockSizesClamped ==
    pc = "open" =>
        /\ Len(toc.zip_block_sizes) = Min(Remaining \div BNum, 500)
        /\ Len(toc.zip_block_sizes) <= 500
        /\ \A k \in 1..Len(toc.zip_block_sizes) :
              be_bytes(toc.zip_block_sizes[k], BNum) = SizeBytes(k)

\* A TOC that declares more than 500 block sizes of three bytes was parsed:
\* 500 were read, the last of them above 255.
C21_Witness ==
    /\ pc = "open"
    /\ BNum = 3
    /\ Remaining \div BNum > 500
    /\ Len(toc.zip_block_sizes) = 500
    /\ toc.zip_block_sizes[500] = 505

\* Five bytes, most significant first, as the limbs of a 40-bit value.
u40_be_bytes_value(b) ==
    [hi |-> b[1] * 256 + b[2], lo |-> b[3] * 65536 + b[4] * 256 + b[5]]

\* The fields of the record that starts off bytes after the start of the
\* TOC.
RecordAt(off) ==
    [hash        |-> hex_upper(SubSeq(TocPlain, off + 1, off + 16)),
     start_block |-> u32_be(SubSeq(TocPlain, off + 17, off + 20)),
     length      |-> u40_value(u40_be_bytes_value(SubSeq(TocPlain, off + 21, off + 25))),
     offset      |-> u40_value(u40_be_bytes_value(SubSeq(TocPlain, off + 26, off + 30)))]

\* The fields of a parsed entry that come from the file.
RecordOf(e) ==
    [hash |-> e.hash, start_block |-> e.start_block,
     length |-> e.length, offset |-> e.offset]

\* C22: the parsed TOC has entry_count entries in declaration order with
\* entries[i].index = i, record i is read from the toc_entry_size bytes that
\* start toc_entry_size * i bytes after the start of the TOC, and the block
\* sizes are read from entry_count * toc_entry_size bytes after it.
C22_RecordsOccupyEntrySize ==
    pc = "open" =>
        /\ Len(toc.entries) = header.entry_count
        /\ \A i \in 1..Len(toc.entries) :
              /\ toc.entries[i].index = i - 1
              /\ RecordOf(toc.entries[i]) = RecordAt(header.toc_entry_size * (i - 1))
        /\ \A k \in 1..Len(toc.zip_block_sizes) :
              be_bytes(toc.zip_block_sizes[k], BNum) =
                  SubSeq(TocPlain,
                         header.entry_count * header.toc_entry_size + (k - 1) * BNum + 1,
                         header.entry_count * header.toc_entry_size + k * BNum)

\* C23: with TOC_ENCRYPTED set, the TOC is the toc_size - 32 bytes after the
\* header, decrypted: a well-formed archive (30-byte records that fit in
\* toc_size, a supported width) whose file length equals toc_size does not
\* fail with a read past the end, it opens with Toc.encrypted set.
C23_EncryptedTocEndsAtTocSize ==
    (/\ pc # "start"
     /\ Len(input) >= 32
     /\ contains(InputWord(28), TOC_ENCRYPTED)
     /\ Len(input) = InputWord(12)
     /\ InputWord(16) = 30
     /\ InputWord(12) - 32 - InputWord(20) * 30 >= 0
     /\ log256_round(InputWord(24)) \in {2, 3, 4}) =>
        /\ last.res # Err("UnexpectedEof")
        /\ pc = "open"
        /\ toc.encrypted

\* The header of the input, as open parses it.
InputHeader == PsarcFileHeader_read_from(input).val

\* toc_size - 32 - entry_count * toc_entry_size of the input's header.
InputRemaining ==
    InputHeader.toc_size - 32 - InputHeader.entry_count * InputHeader.toc_entry_size

\* open was called on an input that holds a whole header.
OpenedWithHeader == pc # "start" /\ Len(input) >= 32

\* C19: whenever toc_size - 32 - entry_count * toc_entry_size is negative,
\* open returns an error value and produces no TOC and no archive.
C19_NegativeRemainingFails ==
    (OpenedWithHeader /\ InputRemaining < 0) =>
        /\ pc = "failed"
        /\ last.res.st = "err"
        /\ toc = NoToc
        /\ data = <<>>

\* C20: whenever round(log_256(block_size)) is not 2, 3 or 4, open returns
\* an error value: it neither panics on a division by zero nor produces a
\* TOC, whatever the number of block sizes to read.
C20_UnsupportedWidthFails ==
    (OpenedWithHeader /\ log256_round(InputHeader.block_size) \notin {2, 3, 4}) =>
        /\ pc = "failed"
        /\ last.res.st = "err"
        /\ toc = NoToc

----------------------------------------------------------------------------
(* Spec: whole archives.  An archive is laid out from items, one per       *)
(* entry: the declared length, the bytes on disk and the size of each      *)
(* block on disk.  Entry 0 is the manifest.  Blocks and bytes of the       *)
(* entries follow one another in entry order, as in real archives.         *)

\* Most entries of an archive.
MaxEntries == 3

\* The block size of the archives (two bytes per block size in the TOC).
ArchiveBlockSize == 65536

Item(length, disk, sizes) == [length |-> length, disk |-> disk, sizes |-> sizes]

Zipped(stream) == <<120, 218>> \o stream

ManifestItems ==
    { Item(0, <<>>, <<>>),                                   \* ""
      Item(2, <<97, LF>>, <<2>>),                            \* "a\n", stored
      Item(4, Zipped(<<97, LF, 98, LF, 0>>), <<7>>),          \* "a\nb\n", deflated
      Item(5, <<195, 169, CR, LF, 98>>, <<5>>),              \* "e'\r\nb", stored
      Item(1, <<255>>, <<1>>),                               \* not UTF-8
      Item(2, Zipped(<<200, 0>>), <<4>>) }                   \* a corrupt stream

OtherItems ==
    { Item(1, <<7>>, <<1>>),                                 \* one stored byte
      Item(3, <<120, 156, 1>>, <<3>>),                       \* stored, starts 78 9C
      Item(3, Zipped(<<1, 2, 3, 0>>), <<6>>),                \* deflated
      Item(2, Zipped(<<5, 6, 7, 0>>), <<6>>),                \* inflates past length
      Item(0, <<>>, <<>>),                                   \* an empty file
      Item(3, <<1, 2, 3>>, <<0>>),                           \* block size 0 in the TOC
      Item(1, <<120, 218>>, <<1>>),                          \* 78 DA, declared size 1
      Item(1, <<>>, <<0>>) }                                 \* size 0 and no bytes

\* Entries after the second: one stored byte each.
TailItems == { Item(1, <<7>>, <<1>>) }

\* n items: a manifest, then any item, then tail items.
ItemLists ==
    { l \in UNION { [1..n -> ManifestItems \cup OtherItems \cup TailItems] :
                    n \in 0..MaxEntries } :
        \A k \in 1..Len(l) :
            IF k = 1 THEN l[k] \in ManifestItems
            ELSE IF k = 2 THEN l[k] \in OtherItems
            ELSE l[k] \in TailItems }

\* The block size of the archive that holds a file of two blocks.
LongBlockSize == 4608

\* A file of two blocks: a full block, deflated, and one stored byte.
LongItem ==
    Item(LongBlockSize + 1,
         Zipped(<<RUN, LongBlockSize \div 256, LongBlockSize % 256, 9, 0>>) \o <<8>>,
         <<7, 1>>)

LongList == << Item(2, <<97, LF>>, <<2>>), LongItem >>

\* "plain": the archive as laid out.  "enc": its TOC encrypted, and 32
\* bytes after the payload for the decryptor to read.  "zdrop": the TOC
\* without the last block size.  "cut": the file without its last byte.
Variants == {"plain", "enc", "zdrop", "cut"}

RECURSIVE SumLen(_)
SumLen(ss) == IF ss = <<>> THEN 0 ELSE Len(Head(ss)) + SumLen(Tail(ss))

MakeArchive(items, variant, block_size) ==
    LET n == Len(items)
        all_sizes == Flatten([k \in 1..n |-> items[k].sizes])
        sizes == IF variant = "zdrop" /\ all_sizes # <<>>
                 THEN SubSeq(all_sizes, 1, Len(all_sizes) - 1) ELSE all_sizes
        base == 32 + 30 * n + 2 * Len(sizes)
        disk == Flatten([k \in 1..n |-> items[k].disk])
        payload == IF variant = "cut" /\ disk # <<>>
                   THEN SubSeq(disk, 1, Len(disk) - 1)
                   ELSE IF variant = "enc" THEN disk \o [i \in 1..32 |-> 0]
                   ELSE disk
        entry(k) ==
            [hash |-> k,
             start_block |-> SumLen([j \in 1..(k - 1) |-> items[j].sizes]),
             length |-> items[k].length,
             offset |-> base + SumLen([j \in 1..(k - 1) |-> items[j].disk])]
    IN  MakeFile([block_size |-> block_size,
                  archive_flags |-> IF variant = "enc" THEN TOC_ENCRYPTED ELSE 0,
                  toc_entry_size |-> 30, entry_count |-> n, toc_size |-> base,
                  entries |-> [k \in 1..n |-> entry(k)], width |-> 2,
                  sizes |-> sizes, slack |-> <<>>, payload |-> payload])

ArchiveInputs ==
    { MakeArchive(l, v, ArchiveBlockSize) : l \in ItemLists, v \in Variants }
    \cup { MakeArchive(LongList, v, LongBlockSize) : v \in Variants }

Init == InitWith(ArchiveInputs)

Next ==
    \/ Open
    \/ ReadManifest
    \/ \E i \in 1..MaxEntries : InflateEntryData(i)

Spec == Init /\ [][Next]_vars

----------------------------------------------------------------------------
(* Claims about whole archives (Spec) *)

\* The archive as PsarcFile::open returned it.
Opened == PsarcFile_open(input, Unlimited).val

\* Entry e of archive f is laid out validly from its k-th block on, that
\* block starting at pos: the block has its size in zip_block_sizes, its
\* bytes lie inside the data, and they hold what the size says: for size
\* 0 a stored block of block_size bytes, for bytes that start 78 DA a
\* stream that inflates to the block's share of the entry, else the
\* block's share itself.
RECURSIVE ValidBlocks(_, _, _, _)
ValidBlocks(f, e, k, pos) ==
    LET block_size == f.header.block_size
        n == num_blocks_of(e.length, block_size)
        block == e.start_block + k
        share == IF k = n - 1 THEN e.length - k * block_size ELSE block_size
        zsize == f.toc.zip_block_sizes[block + 1]
        on_disk == IF zsize = 0 THEN block_size ELSE zsize
        bytes == SubSeq(f.data, pos + 1, pos + on_disk)
        stream == deflate_decode(SubSeq(bytes, 3, Len(bytes)), <<>>)
    IN  \/ k >= n
        \/ /\ block < Len(f.toc.zip_block_sizes)
           /\ pos + on_disk <= Len(f.data)
           /\ IF zsize = 0 THEN share = block_size
              ELSE IF zsize >= 2 /\ SubSeq(bytes, 1, 2) = <<120, 218>>
              THEN stream.st = "ok" /\ Len(stream.val) = share
              ELSE zsize = share
           /\ ValidBlocks(f, e, k + 1, pos + on_disk)

ValidArchive(f) ==
    \A i \in 1..Len(f.toc.entries) :
        /\ f.toc.entries[i].offset <= Len(f.data)
        /\ ValidBlocks(f, f.toc.entries[i], 0, f.toc.entries[i].offset)

\* C1: on a valid archive (the blocks of every entry lie inside the data
\* and zip_block_sizes describes them), inflate_entry_data returns for
\* each entry exactly entry.length bytes.
C1_ValidInflatesToLength ==
    (last.op = "inflate" /\ ValidArchive(File))
        => /\ last.res.st = "ok"
           /\ Len(last.res.val) = toc.entries[last.arg].length

\* What entry 0 of the opened archive decodes to.
Manifest == inflate_entry_as_TextAsset(Opened, Opened.toc.entries[1])

PathCount == Cardinality({ k \in 1..Len(toc.entries) : toc.entries[k].path.some })

\* C2: after a successful read_manifest on an archive with at least one
\* entry, entry 0 is named "NamesBlock.bin", entry k is named by line
\* k - 1 of the manifest for 1 <= k <= min(entry_count - 1, line_count),
\* every other entry has no path, and min(entry_count, 1 + line_count)
\* entries have a path.
C2_ManifestBound ==
    (last.op = "read_manifest" /\ last.res.st = "ok" /\ toc.entries # <<>>)
        => LET entry_count == Len(toc.entries)
               line_count == Len(Manifest.val.lines)
               bound == Min(entry_count - 1, line_count)
           IN  /\ Manifest.st = "ok"
               /\ toc.entries[1].path = Some(NamesBlock)
               /\ \A k \in 1..bound :
                      toc.entries[k + 1].path = Some(Manifest.val.lines[k])
               /\ \A k \in (bound + 1)..(entry_count - 1) :
                      toc.entries[k + 1].path = None
               /\ PathCount = Min(entry_count, 1 + line_count)

\* A manifest of the two lines "a" and "b" bound over three entries.
C2_Witness ==
    /\ last.op = "read_manifest" /\ last.res.st = "ok"
    /\ Len(toc.entries) = 3
    /\ toc.entries[1].path = Some(NamesBlock)
    /\ toc.entries[2].path = Some(<<97>>)
    /\ toc.entries[3].path = Some(<<98>>)

\* C3: when the manifest has more lines than entry_count - 1,
\* read_manifest completes without failure, names entries
\* 1..entry_count-1 by the first lines and ignores the surplus.
C3_SurplusLinesIgnored ==
    (/\ last.op = "read_manifest"
     /\ Opened.toc.entries # <<>>
     /\ Manifest.st = "ok"
     /\ Len(Manifest.val.lines) > Len(Opened.toc.entries) - 1)
        => /\ last.res.st = "ok"
           /\ \A k \in 1..(Len(toc.entries) - 1) :
                  toc.entries[k + 1].path = Some(Manifest.val.lines[k])

\* C4: after a read_manifest that failed, every entry of the archive,
\* entry 0 included, has no path.
C4_FailedManifestLeavesNoPath ==
    (last.op = "read_manifest" /\ last.res.st = "err")
        => \A k \in 1..Len(toc.entries) : toc.entries[k].path = None

\* The archive and the entry with everything but block_size,
\* zip_block_sizes, data, start_block, length and offset replaced.
OnlyRelevant(f) ==
    [header |-> [NoHeader EXCEPT !.block_size = f.header.block_size],
     toc |-> [entries |-> <<>>, encrypted |-> ~f.toc.encrypted,
              zip_block_sizes |-> f.toc.zip_block_sizes],
     data |-> f.data]

OnlyRelevantOf(e) ==
    [index |-> 0, hash |-> <<>>, path |-> Some(<<63>>),
     start_block |-> e.start_block, length |-> e.length, offset |-> e.offset]

\* C5: inflating the same entry twice gives the same result, the same
\* bytes or an error both times, and the result is a function of
\* block_size, zip_block_sizes, data and the entry's start_block, length
\* and offset alone.
C5_InflateDeterministic ==
    last.op = "inflate"
        => /\ last.prev.arg = last.arg => Returned(last.res) = last.prev.res
           /\ Returned(last.res) =
                Returned(inflate_entry_data(OnlyRelevant(File),
                                            OnlyRelevantOf(toc.entries[last.arg])))

\* An entry inflated twice in a row to the same bytes, in an archive with
\* an encrypted TOC and bound paths.
C5_Witness ==
    /\ last.op = "inflate" /\ last.prev.arg = last.arg
    /\ last.res.st = "ok" /\ last.res.val # <<>>
    /\ last.prev.res = Returned(last.res)
    /\ toc.encrypted /\ toc.entries[last.arg].path.some

\* C6: inflate_entry_data leaves header, TOC and data as they are, whether
\* it succeeds or fails, and an entry inflated after the inflation of
\* another entry failed gives what it gives on the archive as opened.
C6_InflateLeavesArchive ==
    /\ [][last'.op = "inflate"
            => header' = header /\ toc' = toc /\ data' = data]_vars
    /\ []((last.op = "inflate" /\ last.prev.res.st = "err"
                /\ last.prev.arg # last.arg)
            => Returned(last.res) =
                 Returned(inflate_entry_data(Opened, Opened.toc.entries[last.arg])))

\* An entry inflated to its bytes right after another entry failed.
C6_Witness ==
    /\ last.op = "inflate" /\ last.prev.res.st = "err"
    /\ last.prev.arg # last.arg
    /\ last.res.st = "ok" /\ last.res.val # <<>>
    /\ File = [Opened EXCEPT !.toc.entries = toc.entries]

\* C7: a block with a non-zero size is handed to unzip_block exactly when
\* the two bytes at the cursor are 78 DA; with any other two bytes its
\* zsize bytes are copied to the output as they are.
C7_ZlibHeaderSelectsBranch ==
    last.op = "inflate"
        => /\ \A k \in 1..Len(last.res.steps) :
                LET s == last.res.steps[k]
                    two == SubSeq(data, s.from + 1, s.from + 2)
                    inside == s.from + s.zsize <= Len(data)
                IN  (s.zsize # 0 /\ s.from + 2 <= Len(data))
                       => /\ (s.kind = "unzip") <=> (two = <<120, 218>>)
                          /\ two = <<120, 218>> /\ s.zsize >= 2 /\ inside
                               => [st |-> s.st, val |-> s.val] =
                                    deflate_decode(SubSeq(data, s.from + 3,
                                                          s.from + s.zsize), <<>>)
                          /\ two # <<120, 218>>
                               => /\ s.kind = "raw"
                                  /\ IF inside
                                     THEN /\ s.st = "ok"
                                          /\ s.val = SubSeq(data, s.from + 1,
                                                            s.from + s.zsize)
                                          /\ s.pos = s.from + s.zsize
                                     ELSE s.st = "err"
           /\ last.res.st = "ok"
                => last.res.val =
                     truncate(Flatten([k \in 1..Len(last.res.steps) |->
                                          last.res.steps[k].val]),
                              toc.entries[last.arg].length)

\* A block of three bytes that start 78 9C, copied as it is.
C7_Witness ==
    /\ last.op = "inflate" /\ last.res.st = "ok"
    /\ \E k \in 1..Len(last.res.steps) :
           LET s == last.res.steps[k]
           IN  /\ s.zsize = 3 /\ s.kind = "raw"
               /\ SubSeq(data, s.from + 1, s.from + 2) = <<120, 156>>
               /\ last.res.val = SubSeq(data, s.from + 1, s.from + 3)

\* Blocks appended to zip_block_sizes for the comparison of C8.
PadBlocks == 2

Padded(f) ==
    [f EXCEPT !.toc.zip_block_sizes = @ \o [k \in 1..PadBlocks |-> 0]]

\* C8: a block whose index is at or past the end of zip_block_sizes never
\* makes inflate_entry_data fail: it is read like a block of size 0, up to
\* block_size bytes from the cursor, and the call returns what it returns
\* with zeros in the place of the missing sizes.
C8_MissingSizesReadAsZero ==
    last.op = "inflate"
        => /\ \A k \in 1..Len(last.res.steps) :
                LET s == last.res.steps[k]
                    n == Min(header.block_size, Max(Len(data) - s.from, 0))
                IN  s.block >= Len(toc.zip_block_sizes)
                       => /\ s.kind = "full" /\ s.zsize = 0 /\ s.st = "ok"
                          /\ s.val = SubSeq(data, s.from + 1, s.from + n)
                          /\ s.pos = s.from + n
           /\ Returned(last.res) =
                Returned(inflate_entry_data(Padded(File), toc.entries[last.arg]))

\* An entry whose only block has no size in the TOC, inflated to its bytes.
C8_Witness ==
    /\ last.op = "inflate" /\ last.res.st = "ok" /\ last.res.val # <<>>
    /\ toc.entries[last.arg].start_block >= Len(toc.zip_block_sizes)
    /\ Len(last.res.val) = toc.entries[last.arg].length
    /\ last.res.steps # <<>>

----------------------------------------------------------------------------
(* SpecLookup: get_entry_by_file_name on archives whose manifest has been  *)
(* bound (or not): entry 0 is NamesBlock.bin or has no path, the other     *)
(* entries have a path that is a line of some manifest, or none.           *)

\* Most entries of an archive of SpecLookup.
MaxLookupEntries == 3

\* "a", "b", "d/a", "d/b", "a/", "b/.", "./a", "d/..", "a/b", "/", "."
LookupPaths ==
    { <<97>>, <<98>>, <<100, SLASH, 97>>, <<100, SLASH, 98>>, <<97, SLASH>>,
      <<98, SLASH, DOT>>, <<DOT, SLASH, 97>>, <<100, SLASH, DOT, DOT>>,
      <<97, SLASH, 98>>, <<SLASH>>, <<DOT>> }

\* "a", "b", "d", "..", "", "a/b", "d/a", "NamesBlock.bin"
LookupNames ==
    { <<97>>, <<98>>, <<100>>, <<DOT, DOT>>, <<>>, <<97, SLASH, 98>>,
      <<100, SLASH, 97>>, NamesBlock }

LookupEntry(k, path) ==
    [index |-> k - 1, hash |-> <<>>, start_block |-> 0, length |-> 0,
     offset |-> 0, path |-> path]

LookupOptions == {None} \cup { Some(x) : x \in LookupPaths \cup {NamesBlock} }

LookupPathLists ==
    UNION { { q \in [1..m -> LookupOptions] :
                \A k \in 1..m :
                    IF k = 1 THEN q[k] \in {None, Some(NamesBlock)}
                    ELSE q[k] # Some(NamesBlock) } :
            m \in 0..MaxLookupEntries }

LookupTocs ==
    { [entries |-> [k \in 1..Len(p) |-> LookupEntry(k, p[k])],
       encrypted |-> FALSE, zip_block_sizes |-> <<>>] : p \in LookupPathLists }

InitLookup ==
    /\ input = <<>>
    /\ build \in {"debug", "release"}
    /\ pc = "open"
    /\ hdr = NoResult
    /\ header = NoHeader
    /\ toc \in LookupTocs
    /\ data = <<>>
    /\ last = NoCall
    /\ calls = NoCalls

NextLookup == \E name \in LookupNames : GetEntryByFileName(name)

SpecLookup == InitLookup /\ [][NextLookup]_vars

\* c is the last component of the path p and a normal one: a piece of p
\* without a separator, other than "." and "..", that starts p or follows
\* a separator, and after which p holds separators and "." pieces only.
OnlyTrailing(s) ==
    /\ s # <<>> => s[1] = SLASH
    /\ \A i \in 1..Len(s) :
           \/ s[i] = SLASH
           \/ s[i] = DOT /\ s[i - 1] = SLASH /\ (i = Len(s) \/ s[i + 1] = SLASH)

IsLastComponent(p, c) ==
    /\ c # <<>> /\ c # <<DOT>> /\ c # <<DOT, DOT>>
    /\ \A i \in 1..Len(c) : c[i] # SLASH
    /\ \E k \in 1..Len(p) :
           /\ k = 1 \/ p[k - 1] = SLASH
           /\ k + Len(c) - 1 <= Len(p)
           /\ SubSeq(p, k, k + Len(c) - 1) = c
           /\ OnlyTrailing(SubSeq(p, k + Len(c), Len(p)))

Matching(name) ==
    { k \in 1..Len(toc.entries) :
        toc.entries[k].path.some /\ IsLastComponent(toc.entries[k].path.str, name) }

\* C11: get_entry_by_file_name(name) returns the entry of lowest index
\* whose path has name as its last component, None when there is none;
\* an entry without a path matches no name.
C11_LookupByLastComponent ==
    last.op = "lookup"
        => /\ IF Matching(last.arg) = {} THEN last.res = NoEntry
              ELSE /\ last.res.some
                   /\ last.res.index \in Matching(last.arg)
                   /\ \A k \in Matching(last.arg) : last.res.index <= k
           /\ last.res.some => toc.entries[last.res.index].path.some

\* "a" is found at the third entry "d/a" behind an entry without a path
\* and none at "a/b".
C11_Witness ==
    /\ last.op = "lookup" /\ last.arg = <<97>>
    /\ Len(toc.entries) = 3
    /\ toc.entries[1].path = None
    /\ toc.entries[2].path = Some(<<97, SLASH, 98>>)
    /\ toc.entries[3].path = Some(<<100, SLASH, 97>>)
    /\ last.res = [some |-> TRUE, index |-> 3]

----------------------------------------------------------------------------
(* SpecSng: SngAsset::read_from on SNG files built from a body (the        *)
(* counted arrays and the Metadata record), a header and the cipher, and   *)
(* on files cut short or with another identifier.                          *)

le_bytes(v, n) == [i \in 1..n |-> (v \div (256 ^ (i - 1))) % 256]

Zeros(n) == [i \in 1..n |-> 0]

ctr_encrypt(iv, p) ==
    [i \in 1..Len(p) |-> (p[i] + sng_block((iv[16] + i - 1) % 256)) % 256]

\* The tokens that decode to the bytes b, one run for each stretch of
\* equal bytes, behind a zlib header.
run_starts(b) ==
    LET first(i) == i = 1 \/ b[i] # b[i - 1]
    IN  SelectSeq([i \in 1..Len(b) |-> i], first)

run_tokens(b, at) ==
    Flatten([k \in 1..Len(at) |->
               LET n == (IF k = Len(at) THEN Len(b) + 1 ELSE at[k + 1]) - at[k]
               IN  <<RUN, n \div 256, n % 256, b[at[k]]>>])

zlib_encode(b) == <<120, 218>> \o run_tokens(b, run_starts(b)) \o <<0>>

\* Lyrics of a Vocal: text up to the padding, text with bytes after the
\* first zero, an empty one, one without a zero in its 48 bytes.
Lyrics ==
    <<<<76, 65>> \o Zeros(46),
      <<76, 0, 88, 89>> \o Zeros(44),
      Zeros(48),
      [i \in 1..48 |-> 97]>>

VocalBytes(k) == le_bytes(k, 4) \o le_bytes(60, 4) \o le_bytes(1, 4) \o Lyrics[k]

Records(n, size) == Flatten([i \in 1..n |-> [j \in 1..size |-> 64 + i]])

\* The symbol arrays with the given counts: records of 32, 144 and 44 bytes.
SymbolBytes(c) ==
    le_bytes(c[1], 4) \o Records(c[1], 32) \o le_bytes(c[2], 4)
        \o Records(c[2], 144) \o le_bytes(c[3], 4) \o Records(c[3], 44)

\* A Metadata record with a tuning of n strings.
MetadataBytes(n) == [i \in 1..79 |-> 77] \o le_bytes(n, 4) \o Records(n, 2) \o Zeros(12)

\* A body: first (the count of Bpms), the vocals, the symbol arrays when
\* symbols is not empty, nine empty arrays and the Metadata record.
SngBody(first, vocals, symbols) ==
    le_bytes(first, 4) \o Zeros(12) \o le_bytes(Len(vocals), 4)
        \o Flatten([i \in 1..Len(vocals) |-> VocalBytes(vocals[i])])
        \o (IF symbols = <<>> THEN <<>> ELSE SymbolBytes(symbols))
        \o Zeros(36) \o MetadataBytes(2)

SngBodies ==
    {SngBody(0, v, s) : v \in {<<>>, <<1>>, <<2, 4>>, <<3>>},
                        s \in {<<>>, <<0, 0, 0>>, <<1, 0, 2>>, <<1, 1, 1>>}}
      \cup {SngBody(c, <<1>>, <<0, 0, 0>>) : c \in {1, 1000, 2147483647}}

Cut(b, n) == SubSeq(b, 1, Min(n, Len(b)))

MaxTrim == 1

\* The largest inline count whose elements are written to the file.
MaxInline == 2

SngPlaintexts ==
    SngBodies
      \cup {Cut(SngBody(0, <<>>, <<>>), n) : n \in {0, 3, 19, 20, 23, 56, 57}}
      \cup {Cut(b, Len(b) - t) : b \in SngBodies, t \in 1..MaxTrim}

SngIv == [i \in 1..16 |-> 16 - i]

\* An SNG file: the identifier, the flags, the IV and the ciphertext of
\* the body, the body compressed behind its size when bit 0 is set.
MakeSng(id_buf, asset_flags, size, body) ==
    id_buf \o le_bytes(asset_flags, 4) \o SngIv
        \o ctr_encrypt(SngIv, IF asset_flags % 2 = 1
                              THEN le_bytes(size, 4) \o zlib_encode(body)
                              ELSE body)

Fill(n, v) == [i \in 1..n |-> v]

\* A counted array of one record of size bytes v.
One(size, v) == le_bytes(1, 4) \o Fill(size, v)

\* A fixed string of n bytes: three bytes v and zeros.
Text(n, v) == [i \in 1..n |-> IF i <= 3 THEN v ELSE 0]

\* An i32 count as four bytes, two's complement.
i32_bytes(n) ==
    IF n >= 0 THEN le_bytes(n, 4)
    ELSE le_bytes(n + 2147483647 + 1, 3)
           \o <<128 + (n + 2147483647 + 1) \div 16777216>>

\* An inline count followed by that many elements of size bytes v (none
\* for a negative count or one the file cannot hold).
Inline(n, size, v) ==
    i32_bytes(n) \o (IF n \in 0..MaxInline THEN Fill(n * size, v) ELSE <<>>)

\* The sections of a body with one record in every array, each filled
\* with a byte of its own; c: the inline counts of the NLinkedDifficulty,
\* of the Note (bend data), of the Arrangement (three) and of the Metadata
\* (tuning).
FullSections(c) ==
    <<One(16, 1), One(44, 2), One(72, 3), One(2376, 4), One(60, 5),
      One(32, 6), le_bytes(1, 4) \o Text(128, 7) \o Fill(16, 7), One(44, 8),
      One(24, 9), One(16, 10),
      le_bytes(1, 4) \o Fill(4, 11) \o Inline(c[1], 4, 11),
      le_bytes(1, 4) \o Fill(4, 12) \o Text(256, 12),
      le_bytes(1, 4) \o Fill(4, 13) \o Text(256, 13),
      One(8, 14), One(8, 15), One(88, 16),
      le_bytes(1, 4) \o Fill(4, 17) \o Zeros(16)
          \o le_bytes(1, 4) \o Fill(63, 18) \o Inline(c[2], 12, 18)
          \o Inline(c[3], 4, 19) \o Inline(c[4], 4, 20) \o Inline(c[5], 4, 21),
      Fill(41, 22) \o Fill(32, 23) \o Fill(6, 24) \o Inline(c[6], 2, 25)
          \o Fill(12, 26)>>

FullBody(c) == Flatten(FullSections(c))

\* The inline counts drawn: all equal, all different, one of them negative.
InlineCounts ==
    {[k \in 1..6 |-> n] : n \in 0..MaxInline}
      \cup {<<1, 2, 0, 1, 2, 1>>}
      \cup {[k \in 1..6 |-> IF k = at THEN n ELSE 1] :
               at \in 1..6, n \in {-1, -2147483647 - 1}}

\* One inline count beyond what a file holds.
HugeCounts == {[k \in 1..6 |-> IF k = at THEN 2147483647 ELSE 1] : at \in 1..6}

\* A body that ends six bytes after its count of 2147483647.
HugeCut(b) ==
    Cut(b, 9 + CHOOSE i \in 1..(Len(b) - 3) :
                   SubSeq(b, i, i + 3) = i32_bytes(2147483647))

\* The full body cut one byte before the end of a section and two bytes
\* into the next one.
FullCuts ==
    LET c == [k \in 1..6 |-> 1]
        end(k) == Len(Flatten(SubSeq(FullSections(c), 1, k)))
    IN  {Cut(FullBody(c), end(k) + d) : k \in 1..18, d \in {-1, 2}}

SngIdentifiers == {<<74, 0, 0, 0>>, <<73, 0, 0, 0>>, <<0, 0, 0, 74>>, <<74, 1, 0, 0>>}

SngInputs ==
    {MakeSng(id, fl, Len(b), b) : id \in {<<74, 0, 0, 0>>}, fl \in {0, 2}, b \in SngPlaintexts}
      \cup {MakeSng(id, 1, n, SngBody(0, <<1>>, <<1, 1, 1>>)) :
              id \in SngIdentifiers, n \in {0, 459, 2147483647}}
      \cup {MakeSng(id, 0, 0, SngBody(0, v, <<>>)) :
              id \in SngIdentifiers, v \in {<<>>, <<1>>}}
      \cup {Cut(MakeSng(id, 0, 0, SngBody(0, <<>>, <<>>)), n) :
              id \in SngIdentifiers, n \in {0, 3, 4, 23, 24, 27, 29}}

FullInputs ==
    {MakeSng(<<74, 0, 0, 0>>, 0, 0, b) :
        b \in {FullBody(c) : c \in InlineCounts}
                 \cup {HugeCut(FullBody(c)) : c \in HugeCounts} \cup FullCuts}

InitSng == InitWith(SngInputs \cup FullInputs)

NextSng == \E mem \in MemLimits : ParseSng(mem)

SpecSng == InitSng /\ [][NextSng]_vars

Parsed == last.op = "sng"

\* The identifier bytes of the input are those of the u32 0x0000004A.
IdentifierIsSng == Len(input) >= 4 /\ SubSeq(input, 1, 4) = <<74, 0, 0, 0>>

\* C12 as stated: every input of four bytes or more whose first four
\* bytes, as a little-endian u32, differ from 0x4A fails with the error of
\* a wrong identifier (InvalidData, "Not a valid sng file").
C12_WrongIdentifierIsNotSng ==
    (Parsed /\ Len(input) >= 4 /\ ~IdentifierIsSng)
        => (last.res.st = "err" /\ last.res.val = "InvalidData")

\* C12, amended: an input whose first four bytes, as a little-endian u32,
\* differ from 0x4A fails with an error value before anything is decrypted
\* and before any section is read, and yields no document; the error is
\* that of a wrong identifier when the 24 bytes of the header are there,
\* and that of a short read when they are not.
C12_WrongIdentifierFails ==
    (Parsed /\ Len(input) >= 4 /\ ~IdentifierIsSng)
        => /\ last.res.st = "err"
           /\ last.res.decrypted = 0
           /\ last.res.steps = <<>>
           /\ last.res.val = IF Len(input) >= 24 THEN "InvalidData"
                             ELSE "UnexpectedEof"

\* A whole file with the identifier 0x49 was refused.
C12_Witness ==
    /\ Parsed
    /\ Len(input) > 24
    /\ SubSeq(input, 1, 4) = <<73, 0, 0, 0>>
    /\ last.res.st = "err"

Document == last.res.val
Steps == last.res.steps

ParsedOk == Parsed /\ last.res.st = "ok"

\* Steps k and k + 1 read the named arrays, the second one from the byte
\* where the first one ended.
Adjacent(k, field, next) ==
    /\ Steps[k].field = field
    /\ Steps[k + 1].field = next
    /\ Steps[k + 1].at = Steps[k].to

\* C13: in every successfully parsed document, non-empty vocals come with
\* the three symbol arrays present, each read as a counted array in the
\* order headers, textures, definitions directly after Vocals; empty
\* vocals come with the three absent and no byte read for them, the count
\* of PhraseIterations being read right after the count of Vocals.
C13_SymbolsFollowVocals ==
    ParsedOk =>
        IF Document.vocals # <<>>
        THEN /\ Document.symbol_headers.some
             /\ Document.symbol_textures.some
             /\ Document.symbol_definitions.some
             /\ Adjacent(5, "vocals", "symbol_headers")
             /\ Adjacent(6, "symbol_headers", "symbol_textures")
             /\ Adjacent(7, "symbol_textures", "symbol_definitions")
             /\ Adjacent(8, "symbol_definitions", "phrase_iterations")
             /\ Len(Document.symbol_headers.vec) = Steps[6].count
             /\ Len(Document.symbol_textures.vec) = Steps[7].count
             /\ Len(Document.symbol_definitions.vec) = Steps[8].count
        ELSE /\ ~Document.symbol_headers.some
             /\ ~Document.symbol_textures.some
             /\ ~Document.symbol_definitions.some
             /\ Adjacent(5, "vocals", "phrase_iterations")
             /\ Steps[5].count = 0
             /\ Steps[6].at = Steps[5].at + 4
             /\ \A k \in 1..Len(Steps) :
                   Steps[k].field \notin {"symbol_headers", "symbol_textures",
                                          "symbol_definitions"}

\* A document with two vocals and symbol arrays that are not all empty
\* was parsed.
C13_Witness ==
    /\ ParsedOk
    /\ Len(Document.vocals) = 2
    /\ Document.symbol_headers.vec # <<>>
    /\ Document.symbol_definitions.vec # <<>>

\* The body the sections are parsed from.
Plaintext == DecryptStream_new_sng(input, Len(input), last.arg).val

\* The arrays in the order of the body, with and without the symbol arrays.
OrderBefore == <<"bpms", "phrases", "chords", "chord_notes", "vocals">>
OrderSymbols == <<"symbol_headers", "symbol_textures", "symbol_definitions">>
OrderAfter ==
    <<"phrase_iterations", "phrase_extra_info", "nld", "actions", "events",
      "tones", "dnas", "sections", "arrangements", "metadata">>

\* The array the document holds under a field.
ArrayOf(field) ==
    IF field \in {"symbol_headers", "symbol_textures", "symbol_definitions"}
    THEN Document[field].vec ELSE Document[field]

\* Step k read a counted array whose count was there to read.
CountRead(k) == Steps[k].field # "metadata" /\ Steps[k].at + 4 <= Len(Plaintext)

\* C24: the sections are read in the order Bpms, Phrases, Chords,
\* ChordNotes, Vocals, [the three symbol arrays,] PhraseIterations,
\* PhraseExtraInfoByLevel, NLinkedDifficulties, Actions, Events, Tones,
\* Dnas, Sections, Arrangements, Metadata; each array starts with its u32
\* little-endian count, also when it is empty; each section starts at the
\* byte where the previous one ended; a section that fails is the last one
\* read, and the parse succeeds only when all were read.
C24_SectionsInOrder ==
    Parsed =>
        /\ \E order \in {OrderBefore \o OrderAfter,
                          OrderBefore \o OrderSymbols \o OrderAfter} :
              /\ Len(Steps) <= Len(order)
              /\ \A k \in 1..Len(Steps) : Steps[k].field = order[k]
              /\ last.res.st = "ok" <=>
                    (Len(Steps) = Len(order) /\ Steps[Len(order)].st = "ok")
        /\ Len(Steps) >= 6 =>
              (Steps[6].field = "symbol_headers" <=> Steps[5].count > 0)
        /\ Len(Steps) >= 1 => Steps[1].at = 0
        /\ \A k \in 1..(Len(Steps) - 1) :
              Steps[k].st = "ok" /\ Steps[k + 1].at = Steps[k].to
        /\ \A k \in 1..Len(Steps) :
              /\ CountRead(k) =>
                    Steps[k].count =
                        u32_le(SubSeq(Plaintext, Steps[k].at + 1, Steps[k].at + 4))
              /\ (CountRead(k) /\ Steps[k].st = "ok" /\ Steps[k].count = 0) =>
                    Steps[k].to = Steps[k].at + 4
              /\ (ParsedOk /\ Steps[k].field # "metadata") =>
                    Len(ArrayOf(Steps[k].field)) = Steps[k].count
        /\ (last.res.st # "ok" /\ Steps # <<>>) =>
              Steps[Len(Steps)].st = last.res.st

\* A body with one record in each of the seventeen arrays was parsed: the
\* record of the Tones is the one written for them, and the Metadata was
\* read last, up to the end of the body.
C24_Witness ==
    /\ ParsedOk
    /\ Len(Steps) = 18
    /\ \A k \in 1..17 : Steps[k].count = 1
    /\ Document.tones = <<<<Fill(8, 14)>>>>
    /\ Document.actions[1][1] = Fill(4, 12)
    /\ Steps[18].to = Len(Plaintext)

----------------------------------------------------------------------------
(* SpecVec: read_vec alone, on a count followed by whole records, part of  *)
(* a record, or nothing.                                                   *)

MaxVecRecords == 3

VecCounts == {0, 1, 2, 3, 5, 1000, 65536, 2147483647}

VecTypes == {"Tone", "Vocal", "NLinkedDifficulty"}

VecInputs ==
    {le_bytes(c, 4) \o Flatten([i \in 1..k |-> le_bytes(i, 4) \o le_bytes(0, 4)]) \o Zeros(e) :
        c \in VecCounts, k \in 0..MaxVecRecords, e \in {0, 5}}
      \cup {<<>>, <<1>>, <<1, 0, 0>>}

InitVec == InitWith(VecInputs)

NextVec == \E type \in VecTypes, mem \in MemLimits : ReadVec(type, mem)

SpecVec == InitVec /\ [][NextVec]_vars

\* The count at the head of the input, when the input has one.
DeclaredCount == u32_le(SubSeq(input, 1, 4))

\* C14: a read_vec whose count exceeds the bytes that remain after it (a
\* record takes at least one byte) returns an error value, and neither
\* ends the process nor asks the allocator for a capacity above what the
\* remaining bytes can hold.
C14_OversizedCountRejected ==
    (last.op = "read_vec" /\ Len(input) >= 4 /\ DeclaredCount > Len(input) - 4)
        => /\ last.res.st = "err"
           /\ last.res.reserved <= Len(input) - 4

----------------------------------------------------------------------------
(* SpecFixed: read_fixed_string alone, at the start of the input and one   *)
(* byte in, for sizes up to and beyond what the input holds.               *)

MaxFixedLen == 5

\* A zero, an ASCII letter, and the two bytes of U+00E9, each of which is
\* ill-formed on its own.
FixedBytes == {0, 65, 195, 169}

RECURSIVE Strings(_, _)
Strings(alphabet, n) ==
    IF n = 0 THEN {<<>>}
    ELSE LET shorter == Strings(alphabet, n - 1)
         IN  shorter \cup {Append(s, b) : s \in {t \in shorter : Len(t) = n - 1},
                                          b \in alphabet}

FixedInputs == Strings(FixedBytes, MaxFixedLen)

InitFixed == InitWith(FixedInputs)

NextFixed ==
    \E pos \in 0..1, size \in 0..(MaxFixedLen + 1) : ReadFixedString(pos, size)

SpecFixed == InitFixed /\ [][NextFixed]_vars

FixedRead == last.op = "read_fixed_string"

\* The size bytes the call is to take, when the input holds them.
Taken == SubSeq(input, last.arg.pos + 1, last.arg.pos + last.arg.size)

\* p is what comes before the first zero of b: all of b when b has no zero.
BeforeFirstZero(p, b) ==
    /\ Len(p) <= Len(b)
    /\ p = SubSeq(b, 1, Len(p))
    /\ \A i \in 1..Len(p) : p[i] # 0
    /\ Len(p) < Len(b) => b[Len(p) + 1] = 0

\* C15: read_fixed_string(n) fails when fewer than n bytes remain, and
\* otherwise takes exactly n bytes and returns the text of the bytes before
\* the first zero among them (of all n when none is zero), so that nothing
\* after the first zero shows in the result; bytes of plain ASCII are
\* returned as they are.
C15_FixedStringStopsAtZero ==
    FixedRead =>
        IF last.arg.pos + last.arg.size > Len(input)
        THEN last.res.st = "err"
        ELSE /\ last.res.st = "ok"
             /\ last.res.pos = last.arg.pos + last.arg.size
             /\ \E n \in 0..last.arg.size :
                   /\ BeforeFirstZero(SubSeq(Taken, 1, n), Taken)
                   /\ last.res.val = from_utf8_lossy(SubSeq(Taken, 1, n))
                   /\ (\A i \in 1..n : Taken[i] < 128)
                         => last.res.val = SubSeq(Taken, 1, n)

\* A string with bytes other than zero after its first zero was read.
C15_Witness ==
    /\ FixedRead
    /\ last.res.st = "ok"
    /\ last.arg.size = 4
    /\ Taken[1] = 65 /\ Taken[2] = 0 /\ Taken[3] = 65
    /\ last.res.val = <<65>>

----------------------------------------------------------------------------
(* SpecU40: read_u40_be alone, at the start of the input and one byte in,  *)
(* on every byte string of four to six bytes over a few byte values.       *)

MaxU40Len == 6

U40Bytes == {0, 18, 52, 86, 255}

U40Inputs == {s \in Strings(U40Bytes, MaxU40Len) : Len(s) >= 4}

InitU40 == InitWith(U40Inputs)

NextU40 == \E pos \in 0..1 : ReadU40Be(pos)

SpecU40 == InitU40 /\ [][NextU40]_vars

U40Read == last.op = "read_u40_be" /\ last.res.st = "ok"

\* Byte k (0..4) of the five the call took.
U40Byte(k) == input[last.arg + 1 + k]

\* The five big-endian bytes of the 40-bit value w.
u40_be_bytes(w) ==
    <<w.hi \div 256, w.hi % 256, w.lo \div 65536, (w.lo \div 256) % 256, w.lo % 256>>

\* C16: read_u40_be takes exactly five bytes b0..b4 and returns
\* b0*2^32 + b1*2^24 + b2*2^16 + b3*2^8 + b4, written here as
\* (b0*2^8 + b1) * 2^24 + (b2*2^16 + b3*2^8 + b4) with the two factors
\* checked apart; the result is below 2^40, FF FF FF FF FF gives 2^40 - 1,
\* and the five big-endian bytes of the result are the bytes read, so
\* that a value written as five bytes reads back as itself.
C16_U40BigEndian ==
    /\ last.op = "read_u40_be" =>
          (last.res.st = "ok" <=> last.arg + 5 <= Len(input))
    /\ U40Read =>
          /\ last.res.pos = last.arg + 5
          /\ last.res.val.hi = U40Byte(0) * 256 + U40Byte(1)
          /\ last.res.val.lo = U40Byte(2) * 65536 + U40Byte(3) * 256 + U40Byte(4)
          /\ last.res.val.hi < 65536 /\ last.res.val.lo < 16777216
          /\ (\A k \in 0..4 : U40Byte(k) = 255)
                => last.res.val = [hi |-> 65535, lo |-> 16777215]
          /\ u40_be_bytes(last.res.val) = [k \in 1..5 |-> U40Byte(k - 1)]
          /\ read_u40_be(u40_be_bytes(last.res.val)) = last.res.val

\* FF FF FF FF FF was read.
C16_Witness ==
    /\ U40Read
    /\ \A k \in 0..4 : U40Byte(k) = 255
    /\ last.res.val = [hi |-> 65535, lo |-> 16777215]

SixBytes == <<0, 0, 0, 18, 52, 86>>

\* C17 as stated: read_u40_be on 00 00 00 12 34 56 yields 0x0000123456.
C17_SixBytesYield123456 ==
    (U40Read /\ input = SixBytes /\ last.arg = 0)
        => last.res.val = [hi |-> 0, lo |-> 1193046]

\* C17, amended: read_u40_be on 00 00 00 12 34 56 takes the first five
\* bytes and yields 0x0000001234, the byte 56 staying unread; it yields
\* 0x0000123456 on the five bytes 00 00 12 34 56.
C17_FiveBytesYield123456 ==
    /\ (U40Read /\ input = SixBytes /\ last.arg = 0)
          => (last.res.val = [hi |-> 0, lo |-> 4660] /\ last.res.pos = 5)
    /\ (U40Read /\ input = SixBytes /\ last.arg = 1)
          => (last.res.val = [hi |-> 0, lo |-> 1193046] /\ last.res.pos = 6)
    /\ (U40Read /\ input = Tail(SixBytes) /\ last.arg = 0)
          => (last.res.val = [hi |-> 0, lo |-> 1193046] /\ last.res.pos = 5)

\* The five bytes 00 00 12 34 56 were read on their own.
C17_Witness ==
    /\ U40Read
    /\ input = Tail(SixBytes)
    /\ last.arg = 0
    /\ u40_value(last.res.val) = 1193046

----------------------------------------------------------------------------
(* SpecConcurrent: an archive is opened and NumCalls threads then call     *)
(* inflate_entry_data on it again and again, for any entries, their loops  *)
(* interleaved round by round.                                             *)

ConcurrentLists ==
    { LongList,
      << LongItem, LongItem >>,
      << Item(0, <<>>, <<>>), Item(0, <<>>, <<>>) >> }

ShortLists ==
    { << Item(2, <<97, LF>>, <<2>>), Item(3, Zipped(<<1, 2, 3, 0>>), <<6>>),
         Item(1, <<7>>, <<1>>) >>,
      << Item(4, Zipped(<<97, LF, 98, LF, 0>>), <<7>>), Item(3, <<1, 2, 3>>, <<0>>),
         Item(1, <<7>>, <<1>>) >>,
      << Item(2, Zipped(<<200, 0>>), <<4>>), Item(2, Zipped(<<5, 6, 7, 0>>), <<6>>) >> }

ConcurrentInputs ==
    { MakeArchive(l, v, LongBlockSize) : l \in ConcurrentLists, v \in {"plain", "cut"} }
      \cup { MakeArchive(l, v, ArchiveBlockSize) : l \in ShortLists, v \in Variants }

InitConcurrent == InitWith(ConcurrentInputs)

NextConcurrent ==
    \/ Open
    \/ \E t \in Threads, i \in 1..MaxEntries : BeginInflate(t, i)
    \/ \E t \in Threads : StepInflate(t)

SpecConcurrent == InitConcurrent /\ [][NextConcurrent]_vars

\* What the call of thread t returns when it runs with no other call.
Alone(t) == Returned(inflate_entry_data(File, toc.entries[calls[t].entry]))

\* C18: whatever the interleaving of the rounds of the calls, a call that
\* has returned has returned what inflate_entry_data returns for its entry
\* when run alone; a step of one call changes neither the locals of
\* another call nor the archive.
C18_ConcurrentCallsAsAlone ==
    /\ [](\A t \in Threads : calls[t].phase = "done" => calls[t].res = Alone(t))
    /\ [][calls' # calls =>
            /\ header' = header /\ toc' = toc /\ data' = data
            /\ \A t, u \in Threads :
                  (t # u /\ calls'[t] # calls[t]) => calls'[u] = calls[u]]_vars

\* Two calls for different entries were under way at once, each past its
\* first round, and one of them has returned its bytes.
C18_Witness ==
    /\ calls[1].phase = "done" /\ calls[1].res.st = "ok" /\ calls[1].res.val # <<>>
    /\ calls[2].phase = "walking" /\ calls[2].output # <<>>
    /\ calls[1].entry # calls[2].entry
    /\ calls[2].pos # toc.entries[calls[2].entry].offset

\* The rounds of the loop of the last call of inflate_entry_data.
Rounds == last.res.steps

\* The round started on the two bytes 78 DA.
AtZipHeader(s) ==
    s.from + 2 <= Len(data) /\ SubSeq(data, s.from + 1, s.from + 2) = <<120, 218>>

\* C25: a round of inflate_entry_data for a block of non-zero zsize that
\* ends without error leaves the cursor exactly zsize bytes after the start
\* of the block, whatever the number of bytes it appended; a compressed
\* block is consumed as 2 + (zsize - 2) bytes and fails with an error when
\* zsize < 2.  Each round starts where the round before it left the cursor.
C25_CursorAdvancesByZsize ==
    (last.op = "inflate" /\ last.res.st # "panic") =>
        \A k \in 1..Len(Rounds) :
            /\ (Rounds[k].zsize # 0 /\ Rounds[k].st = "ok") =>
                  Rounds[k].pos = Rounds[k].from + Rounds[k].zsize
            /\ (Rounds[k].zsize # 0 /\ AtZipHeader(Rounds[k])) =>
                  IF Rounds[k].zsize < 2 THEN Rounds[k].st = "err"
                  ELSE Rounds[k].st = "ok" =>
                         Rounds[k].pos = Rounds[k].from + 2 + (Rounds[k].zsize - 2)
            /\ k > 1 => Rounds[k].from = Rounds[k - 1].pos

\* A call went through a compressed block of six bytes that inflates to
\* three: the cursor is six bytes further.
C25_Witness ==
    /\ last.op = "inflate" /\ last.res.st = "ok"
    /\ \E k \in 1..Len(Rounds) :
          /\ AtZipHeader(Rounds[k])
          /\ Rounds[k].zsize = 6
          /\ Len(Rounds[k].val) = 3
          /\ Rounds[k].pos = Rounds[k].from + 6

\* What the rounds of the last call appended, in order.
Appended == Flatten([k \in 1..Len(Rounds) |-> Rounds[k].val])

\* C27: whenever inflate_entry_data returns Ok, on any archive, the output
\* has at most entry.length bytes: it is the first entry.length bytes of
\* what the blocks yielded, or all of it when they yielded fewer.
C27_OutputTruncatedToLength ==
    (last.op = "inflate" /\ last.res.st = "ok") =>
        /\ Len(last.res.val) <= toc.entries[last.arg].length
        /\ last.res.val =
              SubSeq(Appended, 1, Min(Len(Appended), toc.entries[last.arg].length))

\* The blocks of an entry of length 2 yielded three bytes: the call
\* returned the first two.
C27_Witness ==
    /\ last.op = "inflate" /\ last.res.st = "ok"
    /\ toc.entries[last.arg].length = 2
    /\ Appended = <<5, 6, 7>>
    /\ last.res.val = <<5, 6>>

\* The bytes of the data after the cursor, at most n of them.
Left(from, n) ==
    IF from >= Len(data) THEN <<>>
    ELSE SubSeq(data, from + 1, Min(from + n, Len(data)))

\* C28: a round for a block of zsize 0 with fewer than block_size bytes
\* left after the cursor (none included) appends the bytes that are left
\* and is no error, so that a call can return Ok with fewer than
\* entry.length bytes; a round for a raw block of non-zero zsize that
\* reaches past the end of the data is an error, and so is the call.
C28_ShortReadOnlyForZeroSize ==
    last.op = "inflate" /\ last.res.st # "panic" =>
        \A k \in 1..Len(Rounds) :
            /\ Rounds[k].zsize = 0 =>
                  /\ Rounds[k].st = "ok"
                  /\ Rounds[k].val = Left(Rounds[k].from, header.block_size)
                  /\ Rounds[k].pos = Rounds[k].from + Len(Rounds[k].val)
            /\ (/\ Rounds[k].zsize # 0
                /\ ~AtZipHeader(Rounds[k])
                /\ Rounds[k].from + Rounds[k].zsize > Len(data)) =>
                  /\ Rounds[k].st = "err"
                  /\ k = Len(Rounds)
                  /\ last.res.st = "err"

\* A call for an entry of length 3 whose block has zsize 0 found two bytes
\* left in the data and returned them.
C28_Witness ==
    /\ last.op = "inflate" /\ last.res.st = "ok"
    /\ toc.entries[last.arg].length = 3
    /\ Len(Rounds) = 1
    /\ Rounds[1].zsize = 0
    /\ Rounds[1].from + 2 = Len(data)
    /\ last.res.val = <<1, 2>>

\* C29: for an entry of length 0, whatever its start_block (0 included),
\* inflate_entry_data visits no block and returns Ok with no bytes.
C29_EmptyEntryVisitsNoBlock ==
    (last.op = "inflate" /\ toc.entries[last.arg].length = 0) =>
        /\ last.res.st = "ok"
        /\ last.res.val = <<>>
        /\ Rounds = <<>>

----------------------------------------------------------------------------
(* SpecFrame: every operation of an opened archive, in any order:          *)
(* read_manifest, inflate_entry_data, inflate_entry_as and                 *)
(* get_entry_by_file_name, on the plain and encrypted archives of Spec.    *)

FrameInputs ==
    { MakeArchive(l, v, ArchiveBlockSize) : l \in ItemLists, v \in {"plain", "enc"} }

\* "a", "b", "NamesBlock.bin"
FrameNames == { <<97>>, <<98>>, NamesBlock }

InitFrame == InitWith(FrameInputs)

NextFrame ==
    \/ Open
    \/ ReadManifest
    \/ \E i \in 1..MaxEntries : InflateEntryData(i)
    \/ \E i \in 1..MaxEntries : InflateEntryAs(i)
    \/ \E name \in FrameNames : GetEntryByFileName(name)

SpecFrame == InitFrame /\ [][NextFrame]_vars

\* An entry without its path.
Unnamed(e) == [e EXCEPT !.path = None]

\* C26: a call of read_manifest changes nothing of the archive but path
\* fields of TOC entries (index, hash, start_block, length and offset of
\* every entry, the header, zip_block_sizes, the encrypted flag and the data
\* are as before), and a call of any other operation of an opened archive
\* changes nothing of it at all.
C26_OnlyPathsChange ==
    [][pc = "open" =>
          /\ header' = header
          /\ data' = data
          /\ toc'.zip_block_sizes = toc.zip_block_sizes
          /\ toc'.encrypted = toc.encrypted
          /\ Len(toc'.entries) = Len(toc.entries)
          /\ \A i \in 1..Len(toc.entries) :
                Unnamed(toc'.entries[i]) = Unnamed(toc.entries[i])
          /\ last'.op # "read_manifest" => toc' = toc]_vars

\* The manifest of a three-entry archive was bound, and entries were then
\* inflated and looked up: entry 1 is named "a" and has the length it was
\* opened with.
C26_Witness ==
    /\ pc = "open"
    /\ last.op \in {"inflate", "inflate_as", "lookup"}
    /\ Len(toc.entries) = 3
    /\ toc.entries[2].path = Some(<<97>>)
    /\ toc.entries[1].length > 0
    /\ Unnamed(toc.entries[2]) = Opened.toc.entries[2]

----------------------------------------------------------------------------
(* Inline counts (models.rs: NLinkedDifficulty, Note, Arrangement,         *)
(* Metadata), checked on SpecSng.                                          *)

\* The count field and the array of a counted field agree.
CountMatches(c) == c.count >= 0 /\ Len(c.items) = c.count

\* The counted fields of the records of a parsed document: nld_phrase of
\* every NLinkedDifficulty, bend_data of every Note, the three arrays of
\* every Arrangement, tuning of the Metadata.
InlineFields ==
    {Document.nld[i][2] : i \in 1..Len(Document.nld)}
      \cup UNION {{a[6][j][2] : j \in 1..Len(a[6])} :
                     a \in {Document.arrangements[i] :
                               i \in 1..Len(Document.arrangements)}}
      \cup UNION {{Document.arrangements[i][k] : k \in {7, 8, 9}} :
                     i \in 1..Len(Document.arrangements)}
      \cup {Document.metadata[4]}

\* The step that read the named section, and the i32 at an offset of it.
StepOf(field) == CHOOSE k \in 1..Len(Steps) : Steps[k].field = field

Int32At(off) == i32_le(SubSeq(Plaintext, off + 1, off + 4))

\* The offsets at which the count fields of the first record of a section
\* were read: phrase_count of the first NLinkedDifficulty and string_count
\* of the Metadata.
NegativeCountRead ==
    \/ /\ \E k \in 1..Len(Steps) : Steps[k].field = "nld"
       /\ Steps[StepOf("nld")].count >= 1
       /\ Steps[StepOf("nld")].at + 12 <= Len(Plaintext)
       /\ Int32At(Steps[StepOf("nld")].at + 8) < 0
    \/ /\ \E k \in 1..Len(Steps) : Steps[k].field = "metadata"
       /\ Steps[StepOf("metadata")].at + 83 <= Len(Plaintext)
       /\ Int32At(Steps[StepOf("metadata")].at + 79) < 0

\* C30: in every successfully parsed document, every record with an inline
\* count holds an array of exactly that many elements and a count that is
\* not negative (nld_phrase, bend_data, average_notes_per_iteration,
\* notes_in_iteration1, notes_in_iteration2, tuning); a parse that read a
\* negative count does not succeed.
C30_InlineCountsMatch ==
    /\ ParsedOk => \A c \in InlineFields : CountMatches(c)
    /\ (Parsed /\ NegativeCountRead) => last.res.st \notin {"ok"}

\* A document was parsed whose six inline arrays hold 1, 2, 0, 1, 2 and 1
\* elements.
C30_Witness ==
    /\ ParsedOk
    /\ Len(Document.nld) = 1 /\ Len(Document.arrangements) = 1
    /\ Len(Document.arrangements[1][6]) = 1
    /\ Document.nld[1][2].count = 1
    /\ Len(Document.arrangements[1][6][1][2].items) = 2
    /\ Document.arrangements[1][7].items = <<>>
    /\ Len(Document.arrangements[1][8].items) = 1
    /\ Len(Document.arrangements[1][9].items) = 2
    /\ Document.metadata[4].count = 1
    /\ \A c \in InlineFields : CountMatches(c)

====
